---- MODULE Spec2Model ----
(***************************************************************************)
(* ACGalaxy plugin: the response envelope and typed parsing (models.py),   *)
(* the HTTP API client (api_client.py), the plugin's expiring cache and    *)
(* the calendar command that uses it (main.py), the derived values of an   *)
(* event and the time groups (models.py) and the days-until function of    *)
(* the calendar template's script (renderer.py).                           *)
(*                                                                         *)
(* Python values are tagged records, so that values of different Python    *)
(* types can be compared.  A Python call that may raise evaluates to a     *)
(* Ret(value) or a Raise(exception).  String literals of the source that   *)
(* are not ASCII are written by their English meaning.                     *)
(***************************************************************************)
EXTENDS Integers, Sequences, FiniteSets, TLC

(***************************************************************************)
(* Python values                                                           *)
(***************************************************************************)
None == [t |-> "None"]
PyInt(n) == [t |-> "int", v |-> n]
PyStr(s) == [t |-> "str", v |-> s]
PyList(s) == [t |-> "list", v |-> s]
PyDict(f) == [t |-> "dict", v |-> f]
EmptyDict == PyDict(<<>>)

Ret(v) == [raised |-> FALSE, val |-> v]
Raise(e) == [raised |-> TRUE, val |-> [t |-> "exc", v |-> e]]

\* bool(x) of Python: None, 0, "", [] and {} are false, instances of the
\* dataclasses (which define neither __bool__ nor __len__) are true.
Truthy(x) ==
  CASE x.t = "None" -> FALSE
    [] x.t = "int" -> x.v # 0
    [] x.t = "str" -> x.v # ""
    [] x.t = "list" -> Len(x.v) > 0
    [] x.t = "dict" -> DOMAIN x.v # {}
    [] OTHER -> TRUE

\* d.get(k, default) on a dict d.
DictGet(d, k, default) == IF k \in DOMAIN d.v THEN d.v[k] ELSE default

\* str(x)
str(x) ==
  CASE x.t = "str" -> x
    [] x.t = "int" -> PyStr(ToString(x.v))
    [] x.t = "None" -> PyStr("None")
    [] OTHER -> PyStr("<repr>")

RECURSIVE KeysSeq(_)
KeysSeq(S) ==
  IF S = {} THEN <<>>
  ELSE LET k == CHOOSE k \in S : TRUE IN <<PyStr(k)>> \o KeysSeq(S \ {k})

\* The sequence a Python for-loop walks over x: a list's items, a dict's keys;
\* None and int are not iterable (TypeError).
Iterate(x) ==
  CASE x.t = "list" -> Ret(x.v)
    [] x.t = "dict" -> Ret(KeysSeq(DOMAIN x.v))
    [] x.t = "str" /\ x.v = "" -> Ret(<<>>)
    [] x.t = "str" /\ x.v # "" -> Ret(<<PyStr("c")>>)
    [] OTHER -> Raise("TypeError")

(***************************************************************************)
(* models.py                                                               *)
(***************************************************************************)
\* ACGEvent_from_dict, but end_unix is read from the key of start_unix.
ACGEvent_from_dict_copy_slip(data) ==
  IF data.t # "dict" THEN Raise("AttributeError")
  ELSE Ret([t |-> "ACGEvent",
            id |-> str(DictGet(data, "id", PyStr(""))),
            project_name |-> DictGet(data, "project_name", PyStr("")),
            start_time |-> DictGet(data, "start_time", PyStr("")),
            end_time |-> DictGet(data, "end_time", PyStr("")),
            start_unix |-> DictGet(data, "start_unix", PyInt(0)),
            end_unix |-> DictGet(data, "start_unix", PyInt(0)),
            city |-> DictGet(data, "city", PyStr("")),
            venue_name |-> DictGet(data, "venue_name", PyStr("")),
            min_price |-> DictGet(data, "min_price", PyInt(0)),
            max_price |-> DictGet(data, "max_price", PyInt(0)),
            like_count |-> DictGet(data, "like_count", PyInt(0)),
            has_npc |-> DictGet(data, "has_npc", PyInt(0)),
            cover |-> DictGet(data, "cover", None),
            coordinate |-> DictGet(data, "coordinate", None),
            description |-> DictGet(data, "description", None)])

\* ACGEvent.from_dict: every field is read with its default; data.get raises
\* AttributeError when data is not a dict.
ACGEvent_from_dict(data) ==
  IF data.t # "dict" THEN Raise("AttributeError")
  ELSE Ret([t |-> "ACGEvent",
            id |-> str(DictGet(data, "id", PyStr(""))),
            project_name |-> DictGet(data, "project_name", PyStr("")),
            start_time |-> DictGet(data, "start_time", PyStr("")),
            end_time |-> DictGet(data, "end_time", PyStr("")),
            start_unix |-> DictGet(data, "start_unix", PyInt(0)),
            end_unix |-> DictGet(data, "end_unix", PyInt(0)),
            city |-> DictGet(data, "city", PyStr("")),
            venue_name |-> DictGet(data, "venue_name", PyStr("")),
            min_price |-> DictGet(data, "min_price", PyInt(0)),
            max_price |-> DictGet(data, "max_price", PyInt(0)),
            like_count |-> DictGet(data, "like_count", PyInt(0)),
            has_npc |-> DictGet(data, "has_npc", PyInt(0)),
            cover |-> DictGet(data, "cover", None),
            coordinate |-> DictGet(data, "coordinate", None),
            description |-> DictGet(data, "description", None)])

Guest_from_dict(data) ==
  IF data.t # "dict" THEN Raise("AttributeError")
  ELSE Ret([t |-> "Guest",
            id |-> str(DictGet(data, "id", PyStr(""))),
            name |-> DictGet(data, "name", PyStr("")),
            description |-> DictGet(data, "description", PyStr("")),
            avatar |-> DictGet(data, "avatar", None)])

\* events = []; for item in items: events.append(ACGEvent.from_dict(item))
RECURSIVE EventsFromItems(_)
EventsFromItems(items) ==
  IF items = <<>> THEN Ret(<<>>)
  ELSE LET h == ACGEvent_from_dict(Head(items)) IN
       IF h.raised THEN h
       ELSE LET r == EventsFromItems(Tail(items)) IN
            IF r.raised THEN r ELSE Ret(<<h.val>> \o r.val)

RECURSIVE GuestsFromItems(_)
GuestsFromItems(items) ==
  IF items = <<>> THEN Ret(<<>>)
  ELSE LET h == Guest_from_dict(Head(items)) IN
       IF h.raised THEN h
       ELSE LET r == GuestsFromItems(Tail(items)) IN
            IF r.raised THEN r ELSE Ret(<<h.val>> \o r.val)

\* ACGListResponse.from_dict, but count is the number of parsed events.
ACGListResponse_from_dict_len(data) ==
  IF data.t # "dict" THEN Raise("AttributeError")
  ELSE LET items == Iterate(DictGet(data, "data", PyList(<<>>))) IN
       IF items.raised THEN items
       ELSE LET events == EventsFromItems(items.val) IN
            IF events.raised THEN events
            ELSE Ret([t |-> "ACGListResponse",
                      count |-> PyInt(Len(events.val)),
                      data |-> PyList(events.val)])

ACGListResponse_from_dict(data) ==
  IF data.t # "dict" THEN Raise("AttributeError")
  ELSE LET items == Iterate(DictGet(data, "data", PyList(<<>>))) IN
       IF items.raised THEN items
       ELSE LET events == EventsFromItems(items.val) IN
            IF events.raised THEN events
            ELSE Ret([t |-> "ACGListResponse",
                      count |-> DictGet(data, "count", PyInt(0)),
                      data |-> PyList(events.val)])

GuestListResponse_from_dict(data) ==
  IF data.t # "dict" THEN Raise("AttributeError")
  ELSE LET items == Iterate(DictGet(data, "data", PyList(<<>>))) IN
       IF items.raised THEN items
       ELSE LET guests == GuestsFromItems(items.val) IN
            IF guests.raised THEN guests
            ELSE Ret([t |-> "GuestListResponse", data |-> PyList(guests.val)])

\* data.get("data", {}).get("guest", {}) and .get("projects", [])
GuestACGListResponse_from_dict(data) ==
  IF data.t # "dict" THEN Raise("AttributeError")
  ELSE LET inner == DictGet(data, "data", EmptyDict) IN
       IF inner.t # "dict" THEN Raise("AttributeError")
       ELSE LET guest == Guest_from_dict(DictGet(inner, "guest", EmptyDict))
                items == Iterate(DictGet(inner, "projects", PyList(<<>>)))
            IN IF guest.raised THEN guest
               ELSE IF items.raised THEN items
               ELSE LET projects == EventsFromItems(items.val) IN
                    IF projects.raised THEN projects
                    ELSE Ret([t |-> "GuestACGListResponse",
                              guest |-> guest.val,
                              projects |-> PyList(projects.val)])

\* A message is its fixed text and the value an f-string formats into it.
Msg(text, arg) == [text |-> text, arg |-> arg]

APIResponse(success, message, data, status_code) ==
  [t |-> "APIResponse", success |-> success, message |-> message,
   data |-> data, status_code |-> status_code]

success_response(data, message) == APIResponse(TRUE, message, data, 200)

error_response(message, status_code) == APIResponse(FALSE, message, None, status_code)

DefaultErrorStatus == 500

\* _get_error_message, but without the lookup table: every status gets the
\* generic text.
_get_error_message_generic(status_code) == "HTTP error " \o ToString(status_code)

_get_error_message(status_code) ==
  CASE status_code = 400 -> "bad request parameters"
    [] status_code = 404 -> "resource does not exist"
    [] status_code = 500 -> "internal server error"
    [] status_code = 502 -> "gateway error"
    [] status_code = 503 -> "service unavailable"
    [] status_code = 504 -> "gateway timeout"
    [] OTHER -> "HTTP error " \o ToString(status_code)

\* from_http_response, but every 2xx status counts as success.
from_http_response_2xx(status_code, response_data) ==
  IF status_code \in 200..299
  THEN success_response(response_data, Msg("request succeeded", None))
  ELSE error_response(Msg(_get_error_message(status_code), response_data), status_code)

from_http_response(status_code, response_data) ==
  IF status_code = 200
  THEN success_response(response_data, Msg("request succeeded", None))
  ELSE error_response(Msg(_get_error_message(status_code), response_data), status_code)

(***************************************************************************)
(* api_client.py                                                           *)
(*                                                                         *)
(* A transport outcome is what one HTTP round trip does: it times out, it  *)
(* cannot connect, it raises another exception, or it delivers a response  *)
(* with a status and a body.  The body is a decoded JSON value, or text    *)
(* that is not JSON.                                                       *)
(***************************************************************************)
Timeout == [kind |-> "timeout", status |-> 0, body |-> None]
ConnectError == [kind |-> "connect", status |-> 0, body |-> None]
OtherError == [kind |-> "error", status |-> 0, body |-> None]
Http(status, body) == [kind |-> "http", status |-> status, body |-> body]
NotJson == [t |-> "undecodable", text |-> "<html>"]

\* try: response.json()  except: {"error": response.text}
response_json(body) ==
  IF body.t = "undecodable" THEN PyDict([error |-> PyStr(body.text)]) ELSE body

TimeoutStatus == 408
UnreachableStatus == 503
NotFoundStatus == 404

_make_request(method, o) ==
  CASE o.kind = "timeout" -> Ret(error_response(Msg("request timed out", None), TimeoutStatus))
    [] o.kind = "connect" -> Ret(error_response(Msg("connection failed", None), UnreachableStatus))
    [] o.kind = "error" -> Ret(error_response(Msg("", [t |-> "exc", v |-> "TransportError"]), 500))
    [] o.kind = "http" ->
         IF method \notin {"GET", "POST"}
         THEN Ret(error_response(Msg("unsupported HTTP method", PyStr(method)), DefaultErrorStatus))
         ELSE Ret(from_http_response(o.status, response_json(o.body)))

\* Caught, but without the except clause: the exception leaves the call.
Uncaught(r, text) == r

\* except Exception as e: return APIResponse.error_response(f"...: {e}")
Caught(r, text) ==
  IF r.raised THEN Ret(error_response(Msg(text, r.val), DefaultErrorStatus)) ELSE r

get_acg_info_try(acg_id, o) ==
  LET r == _make_request("GET", o) IN
  IF r.raised THEN r
  ELSE LET response == r.val IN
       IF response.success /\ Truthy(response.data)
       THEN IF response.data.t # "dict" THEN Raise("AttributeError")
            ELSE LET event_data == DictGet(response.data, "data", None) IN
                 IF Truthy(event_data)
                 THEN LET event == ACGEvent_from_dict(event_data) IN
                      IF event.raised THEN event
                      ELSE Ret(success_response(event.val, Msg("got event info", None)))
                 ELSE Ret(error_response(Msg("event info does not exist", None), NotFoundStatus))
       ELSE Ret(response)

get_acg_info(acg_id, o) == Caught(get_acg_info_try(acg_id, o), "get event info failed")

\* list_params, but an argument is attached whenever it is not None.
list_params_not_none(city_id, city_name, key, order, page, count) ==
  LET given == [city_name |-> city_name, key |-> key, order |-> order,
                page |-> page, count |-> count]
      attached == {"city_id"} \cup {k \in DOMAIN given : given[k] # None}
  IN [k \in attached |-> IF k = "city_id" THEN city_id ELSE given[k]]

\* params = {"city_id": city_id}, then every other argument that is truthy.
list_params(city_id, city_name, key, order, page, count) ==
  LET given == [city_name |-> city_name, key |-> key, order |-> order,
                page |-> page, count |-> count]
      attached == {"city_id"} \cup {k \in DOMAIN given : Truthy(given[k])}
  IN [k \in attached |-> IF k = "city_id" THEN city_id ELSE given[k]]

get_acg_list_try(o) ==
  LET r == _make_request("GET", o) IN
  IF r.raised THEN r
  ELSE LET response == r.val IN
       IF response.success /\ Truthy(response.data)
       THEN LET acg_list == ACGListResponse_from_dict(response.data) IN
            IF acg_list.raised THEN acg_list
            ELSE Ret(success_response(acg_list.val, Msg("got event list", None)))
       ELSE Ret(response)

get_acg_list(o) == Caught(get_acg_list_try(o), "get event list failed")

get_guest_list_try(o) ==
  LET r == _make_request("GET", o) IN
  IF r.raised THEN r
  ELSE LET response == r.val IN
       IF response.success /\ Truthy(response.data)
       THEN LET guest_list == GuestListResponse_from_dict(response.data) IN
            IF guest_list.raised THEN guest_list
            ELSE Ret(success_response(guest_list.val, Msg("got guest list", None)))
       ELSE Ret(response)

get_guest_list(o) == Caught(get_guest_list_try(o), "get guest list failed")

get_guest_acg_list_try(o) ==
  LET r == _make_request("GET", o) IN
  IF r.raised THEN r
  ELSE LET response == r.val IN
       IF response.success /\ Truthy(response.data)
       THEN LET guest_acg_list == GuestACGListResponse_from_dict(response.data) IN
            IF guest_acg_list.raised THEN guest_acg_list
            ELSE Ret(success_response(guest_acg_list.val, Msg("got guest events", None)))
       ELSE Ret(response)

get_guest_acg_list(o) == Caught(get_guest_acg_list_try(o), "get guest events failed")

search_acg_events(o) == get_acg_list(o)

get_city_acg_calendar(o) == get_acg_list(o)

test_connection_try(o) ==
  LET r == _make_request("GET", o) IN
  IF r.raised THEN r
  ELSE LET response == r.val IN
       IF response.success
       THEN Ret(success_response(None, Msg("API connection ok", None)))
       ELSE Ret(error_response(Msg("API connection failed", response.message),
                               DefaultErrorStatus))

test_connection(o) == Caught(test_connection_try(o), "test API connection failed")

\* event.__dict__.copy() with event_dict["guest"] = guest
TaggedEvent(event, guest) ==
  PyDict([f \in (DOMAIN event \ {"t"}) \cup {"guest"} |->
            IF f = "guest" THEN guest ELSE event[f]])

RECURSIVE TagAll(_, _)
TagAll(projects, guest) ==
  IF projects = <<>> THEN <<>>
  ELSE <<TaggedEvent(Head(projects), guest)>> \o TagAll(Tail(projects), guest)

\* guest_loop_body, but an event already collected for an earlier guest is
\* not collected again.
guest_loop_body_dedup(events, guest, acg_response) ==
  IF acg_response.success
  THEN LET guest_acg_data == acg_response.data IN
       IF guest_acg_data.t # "GuestACGListResponse" THEN Raise("AttributeError")
       ELSE Ret(events \o
                SelectSeq(TagAll(guest_acg_data.projects.v, guest),
                          LAMBDA d : \A k \in 1..Len(events) : events[k].v.id # d.v.id))
  ELSE Ret(events)

\* One pass of "for guest in guest_list.data" after its request has answered
\* with acg_response: Ret(all_events) or the exception the pass raises.
guest_loop_body(events, guest, acg_response) ==
  IF acg_response.success
  THEN LET guest_acg_data == acg_response.data IN
       IF guest_acg_data.t # "GuestACGListResponse" THEN Raise("AttributeError")
       ELSE Ret(events \o TagAll(guest_acg_data.projects.v, guest))
  ELSE Ret(events)

search_result(guests, events) ==
  success_response(PyDict([guests |-> PyList(guests),
                           events |-> PyList(events),
                           total_count |-> PyInt(Len(events))]),
                   Msg("guest events search succeeded", None))

\* search_guest_events up to its first per-guest request: Ret(an envelope to
\* return at once) or Ret(None) when the loop over guest_list.data starts.
guest_search_head(guest_response) ==
  IF ~guest_response.success THEN Ret(guest_response)
  ELSE LET guest_list == guest_response.data IN
       IF guest_list.t # "GuestListResponse" THEN Raise("AttributeError")
       ELSE IF ~Truthy(guest_list.data)
            THEN Ret(error_response(Msg("no guest found", None), NotFoundStatus))
            ELSE Ret(None)

(***************************************************************************)
(* Inputs of the API client                                                *)
(***************************************************************************)
MaxItems == 2
MaxCount == 3
MaxGuests == 2
MaxProjects == 2

SeqsUpTo(S, n) == UNION {[1..k -> S] : k \in 0..n}

ItemA == PyDict([id |-> PyStr("A1"), project_name |-> PyStr("Expo A"),
                 start_unix |-> PyInt(1), end_unix |-> PyInt(2)])
ItemB == PyDict([id |-> PyInt(7), project_name |-> PyStr("Expo B")])
Items == {ItemA, ItemB}

GuestItem1 == PyDict([id |-> PyStr("g1"), name |-> PyStr("Alice")])
GuestItem2 == PyDict([id |-> PyInt(2), name |-> PyStr("Bob")])
GuestItems == {GuestItem1, GuestItem2}

Failures == {Timeout, ConnectError, OtherError}
Statuses == {200, 201, 204, 404, 500}
MalformedBodies == {NotJson, EmptyDict, None, PyList(<<>>), PyList(<<PyInt(1)>>)}

DetailBodies ==
  MalformedBodies \cup
  {PyDict([data |-> ItemA]), PyDict([data |-> ItemB]), PyDict([data |-> None]),
   PyDict([code |-> PyInt(0)]), PyDict([data |-> EmptyDict]),
   PyDict([data |-> PyStr("x")])}

ListBodies ==
  MalformedBodies \cup
  {PyDict([count |-> PyInt(c), data |-> PyList(items)]) :
     c \in 0..MaxCount, items \in SeqsUpTo(Items, MaxItems)} \cup
  {PyDict([data |-> None]), PyDict([data |-> PyList(<<ItemA>>)]),
   PyDict([count |-> PyInt(1), data |-> PyList(<<PyInt(1)>>)])}

GuestsBodies ==
  {NotJson, EmptyDict, PyList(<<>>), PyDict([data |-> None])} \cup
  {PyDict([data |-> PyList(gs)]) : gs \in SeqsUpTo(GuestItems, MaxGuests)}

GuestBodies ==
  {EmptyDict, PyDict([data |-> None])} \cup
  {PyDict([data |-> PyDict([guest |-> GuestItem1, projects |-> PyList(ps)])]) :
     ps \in SeqsUpTo(Items, MaxProjects)}

HttpOutcomes(statuses, bodies) == {Http(s, b) : s \in statuses, b \in bodies}

DetailOutcomes == Failures \cup HttpOutcomes(Statuses, DetailBodies)
ListOutcomes == Failures \cup HttpOutcomes(Statuses, ListBodies)
GuestsOutcomes == Failures \cup HttpOutcomes({200, 500}, GuestsBodies)
GuestOutcomes ==
  {Timeout, OtherError, Http(500, EmptyDict)} \cup HttpOutcomes({200}, GuestBodies)

\* The statuses of the error lookup table, and two it does not hold.
ErrorStatuses == {400, 404, 500, 502, 503, 504, 418, 301}

TestOutcomes ==
  Failures \cup
  HttpOutcomes(Statuses \cup ErrorStatuses,
               {NotJson, EmptyDict, PyDict([data |-> PyList(<<ItemA>>)])})

ListArgs ==
  [city_id : {PyInt(0), PyInt(3)}, city_name : {None, PyStr("Shanghai")},
   key : {None, PyStr("")}, order : {None, PyStr("time")},
   page : {None, PyInt(0), PyInt(2)}, count : {None, PyInt(10)}]

\* The arguments of get_acg_list with every default in place.
list_args(city_id, city_name, key, order, page, count) ==
  [city_id |-> city_id, city_name |-> city_name, key |-> key, order |-> order,
   page |-> page, count |-> count]

NoArgs == <<>>

(***************************************************************************)
(* The API client as a state machine: one call at a time, each request     *)
(* answered by a transport outcome.  api_log holds the requests the call   *)
(* in progress has issued, api_ret what the call gave to its caller: a     *)
(* Ret(envelope), or a Raise when an exception leaves the call.  api_args  *)
(* holds the arguments get_acg_list was called with, by its caller or by   *)
(* the operation that wraps it.                                            *)
(***************************************************************************)
VARIABLES api_pc, api_op, api_args, api_log, api_ret, sge_guests, sge_i, all_events

api_vars ==
  <<api_pc, api_op, api_args, api_log, api_ret, sge_guests, sge_i, all_events>>

\* The plugin: self.cache and the wall clock; the last direct call of a cache
\* method and the last write of each key; the command tasks.
VARIABLES cache, now, call, written

VARIABLES pc, running, city, entry, cached_data, response, requests, replies,
          probe, image_render

\* Direct calls of the methods of models.py and of the calendar template's
\* script: the call in progress, its argument and its result; the loop of
\* TimeGroupedEvents.from_events (the index of the event in turn, the dict
\* built so far) and the clock reading each is_ongoing took.
VARIABLES m_pc, m_op, m_arg, m_ret, ev_i, time_groups, read_at

model_vars == <<m_pc, m_op, m_arg, m_ret, ev_i, time_groups, read_at>>

\* The renderer and the HTTP transport, one operation at a time: the
\* operation in progress, its arguments and its result, the exception on its
\* way out; the template files on disk, the template text loaded and whether
\* reading it failed, the page content composed and the str.replace calls
\* made; the Playwright driver, the browser and the HTTP client.
VARIABLES r_pc, r_op, r_args, r_ret, r_exc, disk, template, load_failed,
          html_content, subs, playwright, browser, client

render_vars == <<r_pc, r_op, r_args, r_ret, r_exc, disk, template, load_failed,
                 html_content, subs, playwright, browser, client>>

\* The command handler in progress: its name and argument, the switches of
\* the configuration (both on unless configured otherwise), the envelope
\* the API client answered with, the replies yielded so far and what became
\* of the image.
VARIABLES h_pc, h_cmd, h_arg, h_config, h_response, h_replies, h_image

cmd_vars == <<h_pc, h_cmd, h_arg, h_config, h_response, h_replies, h_image>>

host_vars == <<render_vars, cmd_vars>>

cache_vars == <<cache, now>>
unit_vars == <<call, written>>
task_vars == <<pc, running, city, entry, cached_data, response, requests, replies,
               probe, image_render>>
plugin_vars == <<cache_vars, unit_vars, task_vars, model_vars, host_vars>>
vars == <<api_vars, plugin_vars>>

\* A request as issued, with the outcome of its round trip and the envelope
\* _make_request made of it.
Request(endpoint, target, params, o) ==
  [endpoint |-> endpoint, target |-> target, params |-> params, outcome |-> o,
   response |-> _make_request("GET", o).val]

ApiInit ==
  /\ api_pc = "idle"
  /\ api_op = "none"
  /\ api_args = NoArgs
  /\ api_log = <<>>
  /\ api_ret = Ret(None)
  /\ sge_guests = <<>>
  /\ sge_i = 0
  /\ all_events = <<>>

\* A call that issues one request and returns.
OneRequest(name, args, request, result) ==
  /\ api_op' = name
  /\ api_args' = args
  /\ api_log' = <<request>>
  /\ api_ret' = result
  /\ api_pc' = "done"
  /\ UNCHANGED <<sge_guests, sge_i, all_events>>
  /\ UNCHANGED plugin_vars

Call_get_acg_info ==
  /\ api_pc = "idle"
  /\ \E acg_id \in {PyStr("A1"), PyStr("X1")}, o \in DetailOutcomes :
    OneRequest("get_acg_info", NoArgs, Request("/detail/{id}", acg_id, None, o),
               get_acg_info(acg_id, o))

Call_get_acg_list ==
  /\ api_pc = "idle"
  /\ \E a \in ListArgs, o \in ListOutcomes :
    OneRequest("get_acg_list", a,
               Request("/list", None,
                       PyDict(list_params(a.city_id, a.city_name, a.key, a.order,
                                          a.page, a.count)), o),
               get_acg_list(o))

Call_search_acg_events ==
  /\ api_pc = "idle"
  /\ \E keyword \in {PyStr("expo")}, count \in {PyInt(100)}, o \in ListOutcomes :
    OneRequest("search_acg_events",
               list_args(PyInt(0), None, keyword, None, None, count),
               Request("/list", None,
                       PyDict(list_params(PyInt(0), None, keyword, None, None, count)), o),
               search_acg_events(o))

Call_get_city_acg_calendar ==
  /\ api_pc = "idle"
  /\ \E city_name \in {PyStr("Shanghai")}, count \in {PyInt(100)}, o \in ListOutcomes :
    OneRequest("get_city_acg_calendar",
               list_args(PyInt(0), city_name, None, PyStr("time"), None, count),
               Request("/list", None,
                       PyDict(list_params(PyInt(0), city_name, None, PyStr("time"),
                                          None, count)), o),
               get_city_acg_calendar(o))

Call_get_guest_list ==
  /\ api_pc = "idle"
  /\ \E guest_name \in {PyStr("Alice")}, o \in GuestsOutcomes :
    OneRequest("get_guest_list", NoArgs,
               Request("/guests", None, PyDict([guest_name |-> guest_name]), o),
               get_guest_list(o))

Call_get_guest_acg_list ==
  /\ api_pc = "idle"
  /\ \E guest_id \in {PyStr("g1")}, o \in GuestOutcomes :
    OneRequest("get_guest_acg_list", NoArgs, Request("/guest/{id}", guest_id, None, o),
               get_guest_acg_list(o))

Call_test_connection ==
  /\ api_pc = "idle"
  /\ \E o \in TestOutcomes :
    OneRequest("test_connection", NoArgs,
               Request("/list", None, PyDict([count |-> PyInt(1)]), o),
               test_connection(o))

\* search_guest_events from its call to the first per-guest request (or to
\* its return, when there is none).
Call_search_guest_events ==
  \E guest_name \in {PyStr("Alice")}, o \in GuestsOutcomes :
    LET guest_response == get_guest_list(o).val
        head == guest_search_head(guest_response)
    IN /\ api_pc = "idle"
       /\ api_op' = "search_guest_events"
       /\ api_args' = NoArgs
       /\ api_log' = <<Request("/guests", None, PyDict([guest_name |-> guest_name]), o)>>
       /\ IF head.raised \/ head.val # None
          THEN /\ api_ret' = Caught(head, "search guest events failed")
               /\ api_pc' = "done"
               /\ UNCHANGED <<sge_guests, sge_i, all_events>>
          ELSE /\ sge_guests' = guest_response.data.data.v
               /\ sge_i' = 1
               /\ all_events' = <<>>
               /\ api_pc' = "guest_loop"
               /\ UNCHANGED api_ret
       /\ UNCHANGED plugin_vars

\* await self.get_guest_acg_list(guest.id) of the guest in turn answers; the
\* loop goes to the next guest, or past the last one to the return.
GuestFetch ==
  \E o \in GuestOutcomes :
    LET guest == sge_guests[sge_i]
        acg_response == get_guest_acg_list(o).val
        events == guest_loop_body(all_events, guest, acg_response)
    IN /\ api_pc = "guest_loop"
       /\ api_log' = Append(api_log, Request("/guest/{id}", guest.id, None, o))
       /\ IF events.raised
          THEN /\ api_ret' = Caught(events, "search guest events failed")
               /\ api_pc' = "done"
               /\ UNCHANGED <<sge_i, all_events>>
          ELSE /\ all_events' = events.val
               /\ IF sge_i < Len(sge_guests)
                  THEN /\ sge_i' = sge_i + 1
                       /\ UNCHANGED <<api_ret, api_pc>>
                  ELSE /\ api_ret' = Ret(search_result(sge_guests, events.val))
                       /\ api_pc' = "done"
                       /\ UNCHANGED sge_i
       /\ UNCHANGED <<api_op, api_args, sge_guests>>
       /\ UNCHANGED plugin_vars

\* The caller takes the result; the client is ready for the next call.
ApiReturn ==
  /\ api_pc = "done"
  /\ api_pc' = "idle"
  /\ api_op' = "none"
  /\ api_args' = NoArgs
  /\ api_log' = <<>>
  /\ api_ret' = Ret(None)
  /\ sge_guests' = <<>>
  /\ sge_i' = 0
  /\ all_events' = <<>>
  /\ UNCHANGED plugin_vars

ApiNext ==
  \/ Call_get_acg_info
  \/ Call_get_acg_list
  \/ Call_search_acg_events
  \/ Call_get_city_acg_calendar
  \/ Call_get_guest_list
  \/ Call_get_guest_acg_list
  \/ Call_test_connection
  \/ Call_search_guest_events
  \/ GuestFetch
  \/ ApiReturn

(***************************************************************************)
(* main.py: the cache.  The clock counts seconds; the configured expiry    *)
(* window is scaled down to ExpireSeconds.                                 *)
(***************************************************************************)
ExpireSeconds == 2
MaxTime == 3

cache_expire_time == ExpireSeconds

\* key in self.cache
cache_has(c, key) == key \in DOMAIN c

\* not_expired, but an entry is still fresh when its age equals the window.
not_expired_inclusive(timestamp, t) == t - timestamp <= cache_expire_time

\* time.time() - timestamp < self.cache_expire_time
not_expired(timestamp, t) == t - timestamp < cache_expire_time

\* del self.cache[key]
cache_del(c, key) == [k \in DOMAIN c \ {key} |-> c[k]]

\* get_cached_data, but a read also drops every other entry whose window has
\* passed.
get_cached_data_sweep(c, key, t) ==
  LET kept == {k \in DOMAIN c : k = key \/ not_expired(c[k].timestamp, t)}
      swept == [k \in kept |-> c[k]]
  IN IF cache_has(c, key)
     THEN IF not_expired(c[key].timestamp, t)
          THEN [ret |-> c[key].data, cache |-> swept]
          ELSE [ret |-> None, cache |-> cache_del(swept, key)]
     ELSE [ret |-> None, cache |-> swept]

\* get_cached_data at time t: what it returns and the cache it leaves.
get_cached_data(c, key, t) ==
  IF cache_has(c, key)
  THEN LET data == c[key].data
           timestamp == c[key].timestamp
       IN IF not_expired(timestamp, t)
          THEN [ret |-> data, cache |-> c]
          ELSE [ret |-> None, cache |-> cache_del(c, key)]
  ELSE [ret |-> None, cache |-> c]

\* self.cache[key] = (data, time.time())
set_cached_data(c, key, data, t) ==
  [k \in DOMAIN c \cup {key} |->
     IF k = key THEN [data |-> data, timestamp |-> t] ELSE c[k]]

Keys == {"k1", "k2"}
Values == {PyStr("v"), PyInt(0), None, success_response(EmptyDict, Msg("ok", None))}

NoCall == [op |-> "none", key |-> "", arg |-> None, ret |-> None, at |-> 0]

CacheInit ==
  /\ cache = <<>>
  /\ now = 0
  /\ call = NoCall
  /\ written = <<>>

\* A direct call set_cached_data(k, v).
Call_set_cached_data ==
  /\ \E k \in Keys, v \in Values :
       /\ cache' = set_cached_data(cache, k, v, now)
       /\ call' = [op |-> "set", key |-> k, arg |-> v, ret |-> None, at |-> now]
       /\ written' = [j \in DOMAIN written \cup {k} |->
                        IF j = k THEN [value |-> v, at |-> now] ELSE written[j]]
  /\ UNCHANGED <<now, task_vars, api_vars, model_vars, host_vars>>

\* A direct call get_cached_data(k).
Call_get_cached_data ==
  /\ \E k \in Keys :
       LET r == get_cached_data(cache, k, now) IN
       /\ cache' = r.cache
       /\ call' = [op |-> "get", key |-> k, arg |-> None, ret |-> r.ret, at |-> now]
  /\ UNCHANGED <<now, written, task_vars, api_vars, model_vars, host_vars>>

\* terminate(): self.cache.clear().  The plugin is unloaded, and no write
\* made before it is the last write of a key any more.
Call_terminate ==
  /\ cache' = <<>>
  /\ call' = [op |-> "terminate", key |-> "", arg |-> None, ret |-> None, at |-> now]
  /\ written' = <<>>
  /\ UNCHANGED <<now, task_vars, api_vars, model_vars, host_vars>>

\* A second passes.  The synchronous stretch of a task between two awaits
\* takes no time on this clock.
Tick ==
  /\ now < MaxTime
  /\ running = "none"
  /\ now' = now + 1
  /\ UNCHANGED <<cache, unit_vars, task_vars, api_vars, model_vars, host_vars>>

(***************************************************************************)
(* main.py: the calendar command.  Every invocation is a task of the one   *)
(* event loop: a task that runs keeps the loop until it reaches an await   *)
(* on I/O (Suspends), and only then may another task run.  entry is the    *)
(* (data, timestamp) pair get_cached_data read, probe what the cache held   *)
(* for the key when the expiry test was made.                              *)
(***************************************************************************)
Tasks == {"t1", "t2"}
NoTask == "none"
CityArgs == {"", "Shanghai"}
default_city == "Beijing"

cache_key(c) == "calendar_" \o c

NoEntry == [data |-> None, timestamp |-> 0]
NoProbe == [fresh |-> FALSE, data |-> None]

CalendarOutcomes ==
  {Timeout, Http(200, EmptyDict),
   Http(200, PyDict([count |-> PyInt(0), data |-> PyList(<<>>)])),
   Http(200, PyDict([count |-> PyInt(1), data |-> PyList(<<ItemA>>)]))}

\* Suspends, but a task may also be switched out inside get_cached_data.
SuspendsInGet(p) ==
  p \in {"idle", "await_api", "await_render", "get_check", "get_del"}

\* The places where a task gives up the event loop: before it starts, at
\* "await api_client.get_city_acg_calendar" and at "await
\* self.renderer.render_acg_calendar".  get_cached_data and set_cached_data
\* hold no await.
Suspends(p) == p \in {"idle", "await_api", "await_render"}

MayRun(t) == running \in {NoTask, t}

Goto(t, p) ==
  /\ pc' = [pc EXCEPT ![t] = p]
  /\ running' = IF Suspends(p) THEN NoTask ELSE t

Reply(t, kind) == replies' = [replies EXCEPT ![t] = Append(@, kind)]

TaskInit ==
  /\ pc = [t \in Tasks |-> "idle"]
  /\ running = NoTask
  /\ city = [t \in Tasks |-> default_city]
  /\ entry = [t \in Tasks |-> NoEntry]
  /\ cached_data = [t \in Tasks |-> None]
  /\ response = [t \in Tasks |-> None]
  /\ requests = [t \in Tasks |-> 0]
  /\ replies = [t \in Tasks |-> <<>>]
  /\ probe = [t \in Tasks |-> NoProbe]
  /\ image_render \in BOOLEAN

\* The command is invoked: an empty city argument becomes the default city.
\* (get_api_client() is never None after __init__.)
Start(t) ==
  /\ pc[t] = "idle" /\ MayRun(t)
  /\ \E arg \in CityArgs :
       city' = [city EXCEPT ![t] = IF arg = "" THEN default_city ELSE arg]
  /\ Goto(t, "get_lookup")
  /\ UNCHANGED <<cache_vars, entry, cached_data, response, requests, replies, probe,
                 image_render, unit_vars, api_vars, model_vars, host_vars>>

\* get_cached_data: "if key in self.cache: data, timestamp = self.cache[key]"
GetLookup(t) ==
  /\ pc[t] = "get_lookup" /\ MayRun(t)
  /\ IF cache_has(cache, cache_key(city[t]))
     THEN /\ entry' = [entry EXCEPT ![t] = cache[cache_key(city[t])]]
          /\ Goto(t, "get_check")
          /\ UNCHANGED cached_data
     ELSE /\ cached_data' = [cached_data EXCEPT ![t] = None]
          /\ Goto(t, "branch")
          /\ UNCHANGED entry
  /\ UNCHANGED <<cache_vars, city, response, requests, replies, probe, image_render,
                 unit_vars, api_vars, model_vars, host_vars>>

\* get_cached_data: the expiry test, and "return data" when it passes.
GetCheck(t) ==
  /\ pc[t] = "get_check" /\ MayRun(t)
  /\ probe' = [probe EXCEPT ![t] =
                 LET key == cache_key(city[t]) IN
                 IF key \in DOMAIN cache /\ now - cache[key].timestamp < ExpireSeconds
                 THEN [fresh |-> TRUE, data |-> cache[key].data]
                 ELSE NoProbe]
  /\ IF not_expired(entry[t].timestamp, now)
     THEN /\ cached_data' = [cached_data EXCEPT ![t] = entry[t].data]
          /\ Goto(t, "branch")
     ELSE /\ Goto(t, "get_del")
          /\ UNCHANGED cached_data
  /\ UNCHANGED <<cache_vars, city, entry, response, requests, replies, image_render,
                 unit_vars, api_vars, model_vars, host_vars>>

\* get_cached_data: "del self.cache[key]" and "return None".  A key that is
\* gone raises KeyError, which the command's except clause answers.
GetDel(t) ==
  /\ pc[t] = "get_del" /\ MayRun(t)
  /\ IF cache_has(cache, cache_key(city[t]))
     THEN /\ cache' = cache_del(cache, cache_key(city[t]))
          /\ cached_data' = [cached_data EXCEPT ![t] = None]
          /\ Goto(t, "branch")
          /\ UNCHANGED replies
     ELSE /\ Reply(t, "exception")
          /\ Goto(t, "done")
          /\ UNCHANGED <<cache, cached_data>>
  /\ UNCHANGED <<now, city, entry, response, requests, probe, image_render,
                 unit_vars, api_vars, model_vars, host_vars>>

\* calendar_branch, but the cache is never taken for a hit.
calendar_branch_always_miss(cached) == FALSE

\* "if cached_data:" of acg_calendar_command
calendar_branch(cached) == Truthy(cached)

\* "if cached_data: response = cached_data", else the request to the API
\* client is made and awaited.
Branch(t) ==
  /\ pc[t] = "branch" /\ MayRun(t)
  /\ IF calendar_branch(cached_data[t])
     THEN /\ response' = [response EXCEPT ![t] = cached_data[t]]
          /\ Goto(t, "respond")
          /\ UNCHANGED requests
     ELSE /\ requests' = [requests EXCEPT ![t] = @ + 1]
          /\ Goto(t, "await_api")
          /\ UNCHANGED response
  /\ UNCHANGED <<cache_vars, city, entry, cached_data, replies, probe, image_render,
                 unit_vars, api_vars, model_vars, host_vars>>

\* The API client answers the awaited get_city_acg_calendar.
ApiAnswer(t) ==
  /\ pc[t] = "await_api" /\ MayRun(t)
  /\ \E o \in CalendarOutcomes :
       response' = [response EXCEPT ![t] = get_city_acg_calendar(o).val]
  /\ Goto(t, "store")
  /\ UNCHANGED <<cache_vars, city, entry, cached_data, requests, replies, probe,
                 image_render, unit_vars, api_vars, model_vars, host_vars>>

\* Store, but the answer is stored whether it succeeded or not.
Store_always(t) ==
  /\ pc[t] = "store" /\ MayRun(t)
  /\ cache' = set_cached_data(cache, cache_key(city[t]), response[t], now)
  /\ Goto(t, "respond")
  /\ UNCHANGED <<now, city, entry, cached_data, response, requests, replies, probe,
                 image_render, unit_vars, api_vars, model_vars, host_vars>>

\* "if response.success: self.set_cached_data(cache_key, response)"
Store(t) ==
  /\ pc[t] = "store" /\ MayRun(t)
  /\ IF response[t].success
     THEN cache' = set_cached_data(cache, cache_key(city[t]), response[t], now)
     ELSE UNCHANGED cache
  /\ Goto(t, "respond")
  /\ UNCHANGED <<now, city, entry, cached_data, response, requests, replies, probe,
                 image_render, unit_vars, api_vars, model_vars, host_vars>>

\* From "if not response.success" to the reply, or to the awaited render.
\* response.data that is no ACGListResponse raises AttributeError at
\* "acg_list.data", which the except clause answers.
Respond(t) ==
  /\ pc[t] = "respond" /\ MayRun(t)
  /\ IF ~response[t].success
     THEN Reply(t, "failure") /\ Goto(t, "done")
     ELSE IF response[t].data.t # "ACGListResponse"
     THEN Reply(t, "exception") /\ Goto(t, "done")
     ELSE IF ~Truthy(response[t].data.data)
     THEN Reply(t, "no events") /\ Goto(t, "done")
     ELSE IF image_render
     THEN UNCHANGED replies /\ Goto(t, "await_render")
     ELSE Reply(t, "text") /\ Goto(t, "done")
  /\ UNCHANGED <<cache_vars, city, entry, cached_data, response, requests, probe,
                 image_render, unit_vars, api_vars, model_vars, host_vars>>

\* The awaited render_acg_calendar returns image bytes, or raises and the
\* command goes on to the text format.
RenderAnswer(t) ==
  /\ pc[t] = "await_render" /\ MayRun(t)
  /\ \E rendered \in BOOLEAN :
       IF rendered THEN Reply(t, "image") ELSE Reply(t, "text")
  /\ Goto(t, "done")
  /\ UNCHANGED <<cache_vars, city, entry, cached_data, response, requests, probe,
                 image_render, unit_vars, api_vars, model_vars, host_vars>>

\* The handler has ended and its locals are gone.
Finish(t) ==
  /\ pc[t] = "done" /\ MayRun(t)
  /\ city' = [city EXCEPT ![t] = default_city]
  /\ entry' = [entry EXCEPT ![t] = NoEntry]
  /\ cached_data' = [cached_data EXCEPT ![t] = None]
  /\ response' = [response EXCEPT ![t] = None]
  /\ requests' = [requests EXCEPT ![t] = 0]
  /\ replies' = [replies EXCEPT ![t] = <<>>]
  /\ probe' = [probe EXCEPT ![t] = NoProbe]
  /\ Goto(t, "idle")
  /\ UNCHANGED <<cache_vars, image_render, unit_vars, api_vars, model_vars, host_vars>>

(***************************************************************************)
(* models.py: the derived values of an event and the time groups.  A       *)
(* time_groups dict is the sequence of its (key, events) entries in        *)
(* insertion order, as a Python dict keeps them.                           *)
(***************************************************************************)
\* The marker string under which ongoing events are grouped.
OngoingMarker == PyStr("ongoing")

\* is_ongoing, but with both bounds exclusive.
is_ongoing_exclusive(event, current_time) ==
  IF event.start_unix.t # "int" THEN Raise("TypeError")
  ELSE IF ~(event.start_unix.v < current_time) THEN Ret(FALSE)
  ELSE IF event.end_unix.t # "int" THEN Raise("TypeError")
  ELSE Ret(current_time < event.end_unix.v)

\* self.start_unix <= current_time <= self.end_unix: a chained comparison,
\* whose second half is evaluated only when the first holds; comparing a
\* number with None or a str raises TypeError.
is_ongoing(event, current_time) ==
  IF event.start_unix.t # "int" THEN Raise("TypeError")
  ELSE IF ~(event.start_unix.v <= current_time) THEN Ret(FALSE)
  ELSE IF event.end_unix.t # "int" THEN Raise("TypeError")
  ELSE Ret(current_time <= event.end_unix.v)

\* current_time < self.start_unix
is_upcoming(event, current_time) ==
  IF event.start_unix.t # "int" THEN Raise("TypeError")
  ELSE Ret(current_time < event.start_unix.v)

\* is_finished, but an event is finished from the second it ends.
is_finished_inclusive(event, current_time) ==
  IF event.end_unix.t # "int" THEN Raise("TypeError")
  ELSE Ret(current_time >= event.end_unix.v)

\* current_time > self.end_unix
is_finished(event, current_time) ==
  IF event.end_unix.t # "int" THEN Raise("TypeError")
  ELSE Ret(current_time > event.end_unix.v)

\* format(seconds / 86400, ".0f") for seconds > 0: the quotient rounded to
\* a whole number, a tie going to the even neighbour.
days_0f(seconds) ==
  LET q == seconds \div 86400
      r == seconds % 86400
  IN ToString(IF 2 * r < 86400 THEN q
              ELSE IF 2 * r > 86400 THEN q + 1
              ELSE IF q % 2 = 0 THEN q ELSE q + 1)

CountdownText == "starts in <days_until:.0f> days"
OngoingText == PyStr("ongoing")
FinishedText == PyStr("finished")

\* status_text with one reading of the clock: the countdown before the
\* start, the ongoing text up to and including the end, the finished text
\* after it.  end_unix is compared only when the start has been reached.
status_text(event, current_time) ==
  IF event.start_unix.t # "int" THEN Raise("TypeError")
  ELSE IF current_time < event.start_unix.v
  THEN Ret(Msg(CountdownText, days_0f(event.start_unix.v - current_time)))
  ELSE IF event.end_unix.t # "int" THEN Raise("TypeError")
  ELSE IF current_time <= event.end_unix.v THEN Ret(OngoingText)
  ELSE Ret(FinishedText)

\* time_key in time_groups
groups_has(groups, time_key) == \E j \in 1..Len(groups) : groups[j].key = time_key

\* bucket_add, but the bucket is made anew every time.
bucket_add_reset(groups, time_key, event) ==
  IF groups_has(groups, time_key)
  THEN [j \in 1..Len(groups) |->
          IF groups[j].key = time_key
          THEN [key |-> time_key, events |-> <<event>>] ELSE groups[j]]
  ELSE Append(groups, [key |-> time_key, events |-> <<event>>])

\* bucket_add, but the event goes to the front of its bucket.
bucket_add_front(groups, time_key, event) ==
  IF groups_has(groups, time_key)
  THEN [j \in 1..Len(groups) |->
          IF groups[j].key = time_key
          THEN [key |-> time_key, events |-> <<event>> \o groups[j].events]
          ELSE groups[j]]
  ELSE Append(groups, [key |-> time_key, events |-> <<event>>])

\* if time_key not in time_groups: time_groups[time_key] = []
\* time_groups[time_key].append(event)
bucket_add(groups, time_key, event) ==
  LET made == IF groups_has(groups, time_key) THEN groups
              ELSE Append(groups, [key |-> time_key, events |-> <<>>])
  IN [j \in 1..Len(made) |->
        IF made[j].key = time_key
        THEN [key |-> time_key, events |-> Append(made[j].events, event)]
        ELSE made[j]]

\* One pass of "for event in events" of from_events, is_ongoing reading the
\* clock at current_time: Ret(time_groups) or the exception it raises.
from_events_body(groups, event, current_time) ==
  LET ongoing == is_ongoing(event, current_time) IN
  IF ongoing.raised THEN ongoing
  ELSE LET time_key == IF ongoing.val THEN OngoingMarker ELSE event.start_time
       IN Ret(bucket_add(groups, time_key, event))

TimeGroupedEvents(groups) == [t |-> "TimeGroupedEvents", time_groups |-> groups]

\* sum(len(events) for events in self.time_groups.values())
RECURSIVE get_total_count(_)
get_total_count(groups) ==
  IF groups = <<>> THEN 0
  ELSE Len(Head(groups).events) + get_total_count(Tail(groups))

\* One day in seconds: the unit of timedelta.days and of the script's
\* 1000 * 60 * 60 * 24 milliseconds.
SecondsPerDay == 86400

Max(a, b) == IF a >= b THEN a ELSE b

\* The text of day d of the month the keys are in.  Instants are seconds
\* since the midnight before day 1, so day d begins at d * SecondsPerDay.
DateText(d) == "2026-05-0" \o ToString(d)

IsDateText(text) == \E d \in 1..9 : text = DateText(d)

\* time_key.split(" ")[0] on the texts of DayKeys: a date, a date followed by
\* a time of day, a date after a leading space, a text without a space.
first_word(text) ==
  IF \E d \in 1..9 : text = DateText(d) \o " 10:00:00"
  THEN DateText(CHOOSE d \in 1..9 : text = DateText(d) \o " 10:00:00")
  ELSE IF \E d \in 1..9 : text = " " \o DateText(d) THEN ""
  ELSE text

\* datetime.strptime(date_part, "%Y-%m-%d"): the midnight the day begins at,
\* a naive datetime; ValueError for a text that is no date.
strptime(date_part) ==
  IF IsDateText(date_part)
  THEN Ret((CHOOSE d \in 1..9 : date_part = DateText(d)) * SecondsPerDay)
  ELSE Raise("ValueError")

\* The try block of get_days_until_start.  datetime.now() is the naive local
\* time, utc_offset seconds ahead of the instant at; timedelta.days is the
\* floor of the difference in days.
days_until_try(time_key, at, utc_offset) ==
  IF time_key.t # "str" THEN Raise("TypeError")
  ELSE LET target_date == strptime(first_word(time_key.v)) IN
       IF target_date.raised THEN target_date
       ELSE LET current_date == at + utc_offset
                delta == target_date.val - current_date
            IN Ret(PyInt(Max(0, delta \div SecondsPerDay)))

\* get_days_until_start, but without the clamp at zero.
get_days_until_start_unclamped(time_key, at, utc_offset) ==
  IF time_key = OngoingMarker THEN Ret(PyInt(0))
  ELSE IF time_key.t # "str" \/ ~IsDateText(first_word(time_key.v)) THEN Ret(PyInt(0))
  ELSE Ret(PyInt((strptime(first_word(time_key.v)).val - (at + utc_offset))
                 \div SecondsPerDay))

\* get_days_until_start: 0 for the marker; "except: return 0" catches
\* whatever the try block raises.
get_days_until_start(time_key, at, utc_offset) ==
  IF time_key = OngoingMarker THEN Ret(PyInt(0))
  ELSE LET r == days_until_try(time_key, at, utc_offset) IN
       IF r.raised THEN Ret(PyInt(0)) ELSE r

(***************************************************************************)
(* renderer.py: calculateDaysUntil of the time-grouped template's script.  *)
(* A JavaScript number is an int value or NaN.                             *)
(***************************************************************************)
NaN == [t |-> "NaN"]

\* new Date(text): a date-only ISO text is midnight UTC of that day, any
\* other text of DayKeys an Invalid Date, whose time value is NaN.
js_Date(text) ==
  IF IsDateText(text)
  THEN PyInt((CHOOSE d \in 1..9 : text = DateText(d)) * SecondsPerDay)
  ELSE NaN

\* Math.ceil(x / y) for y > 0
js_ceil_div(x, y) == 0 - ((0 - x) \div y)

\* calculateDaysUntil(dateStr) run at the instant at.  No statement of its
\* try block throws for a string, so the catch never runs: arithmetic on an
\* Invalid Date gives NaN, and Math.max(0, NaN) is NaN.
calculateDaysUntil(dateStr, at) ==
  IF dateStr = OngoingMarker THEN PyInt(0)
  ELSE LET targetDate == js_Date(first_word(dateStr.v)) IN
       IF targetDate = NaN THEN NaN
       ELSE LET diffTime == targetDate.v - at
                diffDays == js_ceil_div(diffTime, SecondsPerDay)
            IN PyInt(Max(0, diffDays))

(***************************************************************************)
(* models.py: price_range_yuan                                             *)
(***************************************************************************)
\* The sign the source formats prices with, U+FFE5 (fullwidth yen sign).
FullwidthYen == "<U+FFE5>"

\* format(price / 100, ".0f") for a price >= 0: the quotient rounded to a
\* whole number, a tie going to the even neighbour.
yuan_0f(price) ==
  LET q == price \div 100
      r == price % 100
  IN ToString(IF r < 50 THEN q
              ELSE IF r > 50 THEN q + 1
              ELSE IF q % 2 = 0 THEN q ELSE q + 1)

\* price_range_yuan, but the two-amount form is used for equal prices too.
price_range_yuan_always_range(event) ==
  IF event.min_price.t # "int" \/ event.max_price.t # "int" THEN Raise("TypeError")
  ELSE Ret(PyStr(FullwidthYen \o yuan_0f(event.min_price.v) \o " - "
                 \o yuan_0f(event.max_price.v)))

\* None / 100 raises TypeError.
price_range_yuan(event) ==
  IF event.min_price.t # "int" \/ event.max_price.t # "int" THEN Raise("TypeError")
  ELSE IF event.min_price.v = event.max_price.v
  THEN Ret(PyStr(FullwidthYen \o yuan_0f(event.min_price.v)))
  ELSE Ret(PyStr(FullwidthYen \o yuan_0f(event.min_price.v) \o " - "
                 \o yuan_0f(event.max_price.v)))

(***************************************************************************)
(* Direct calls of the methods of models.py and of calculateDaysUntil.     *)
(* The events came through ACGEvent.from_dict; unix times are on the scale *)
(* of the clock now.                                                       *)
(***************************************************************************)
MaxEvents == 3
MaxDay == 2

GroupItems ==
  {PyDict([id |-> PyStr("g1"), start_time |-> PyStr(DateText(2)),
           start_unix |-> PyInt(1), end_unix |-> PyInt(2)]),
   PyDict([id |-> PyStr("g2"), start_time |-> PyStr(DateText(1)),
           start_unix |-> PyInt(3), end_unix |-> PyInt(3)]),
   PyDict([id |-> PyStr("g3"), start_time |-> PyStr(DateText(2)),
           start_unix |-> PyInt(2), end_unix |-> PyInt(1)]),
   PyDict([id |-> PyStr("g4"), start_time |-> OngoingMarker,
           start_unix |-> PyInt(0), end_unix |-> PyInt(0)]),
   PyDict([id |-> PyStr("g5"), start_time |-> PyStr(DateText(1)),
           start_unix |-> None, end_unix |-> PyInt(3)])}

GroupEvents == {ACGEvent_from_dict(item).val : item \in GroupItems}

DayKeys ==
  {OngoingMarker, None, PyInt(5), PyStr("soon"), PyStr("")} \cup
  {PyStr(DateText(d)) : d \in 1..MaxDay} \cup
  {PyStr(DateText(d) \o " 10:00:00") : d \in 1..MaxDay} \cup
  {PyStr(" " \o DateText(d)) : d \in 1..MaxDay}

\* The keys of the JSON object the script walks are strings.
ScriptKeys == {k \in DayKeys : k.t = "str"}

\* Midnight, one second past it and noon of each day.
Instants == {d * SecondsPerDay + s : d \in 0..MaxDay, s \in {0, 1, 43200}}

\* The host's zone: UTC, or eight hours ahead of it.
UtcOffsets == {0, 28800}

PriceValues ==
  {PyInt(0), PyInt(50), PyInt(150), PyInt(1999), PyInt(2000), PyInt(3000),
   PyInt(5000), None}

FromDictItems ==
  Items \cup GroupItems \cup
  {EmptyDict, PyList(<<>>),
   PyDict([id |-> PyStr("p1"), project_name |-> PyStr("Expo P"),
           min_price |-> PyInt(2000), max_price |-> PyInt(5000),
           start_unix |-> PyInt(2)])}

\* Clock readings and start and end times for the status of an event: half
\* a day, a day and a day and a half apart, and a second off each.
StatusTimes == {0, 1, 43200, 43201, 86400, 129600, 129601}

StatusEvents ==
  {ACGEvent_from_dict(PyDict([start_unix |-> s, end_unix |-> e])).val :
     s \in {PyInt(n) : n \in StatusTimes} \cup {None},
     e \in {PyInt(n) : n \in StatusTimes} \cup {None}}

ModelInit ==
  /\ m_pc = "idle"
  /\ m_op = "none"
  /\ m_arg = None
  /\ m_ret = Ret(None)
  /\ ev_i = 0
  /\ time_groups = <<>>
  /\ read_at = <<>>

\* A call that returns without reading the clock.
OneCall(name, arg, result) ==
  /\ m_pc = "idle"
  /\ m_op' = name
  /\ m_arg' = arg
  /\ m_ret' = result
  /\ m_pc' = "done"
  /\ UNCHANGED <<ev_i, time_groups, read_at>>
  /\ UNCHANGED <<cache_vars, unit_vars, task_vars, api_vars, host_vars>>

Call_from_dict ==
  /\ m_pc = "idle"
  /\ \E item \in FromDictItems :
       OneCall("from_dict", item, ACGEvent_from_dict(item))

Call_price_range_yuan ==
  /\ m_pc = "idle"
  /\ \E lo \in PriceValues, hi \in PriceValues :
       LET event == ACGEvent_from_dict(PyDict([min_price |-> lo, max_price |-> hi])).val
       IN OneCall("price_range_yuan", event, price_range_yuan(event))

\* get_days_until_start(time_key) called at the instant at on a host
\* utc_offset seconds ahead of UTC.
Call_get_days_until_start ==
  /\ m_pc = "idle"
  /\ \E time_key \in DayKeys, at \in Instants, utc_offset \in UtcOffsets :
       OneCall("get_days_until_start",
               [time_key |-> time_key, at |-> at, utc_offset |-> utc_offset],
               get_days_until_start(time_key, at, utc_offset))

\* The script's calculateDaysUntil(timeKey) run at the instant at, in a
\* browser on the same host.
Call_calculateDaysUntil ==
  /\ m_pc = "idle"
  /\ \E time_key \in ScriptKeys, at \in Instants, utc_offset \in UtcOffsets :
       OneCall("calculateDaysUntil",
               [time_key |-> time_key, at |-> at, utc_offset |-> utc_offset],
               Ret(calculateDaysUntil(time_key, at)))

\* The three state properties and status_text of one event, each read with
\* the clock at the instant at.
Call_status ==
  /\ m_pc = "idle"
  /\ \E event \in StatusEvents, at \in StatusTimes :
       OneCall("status", [event |-> event, at |-> at],
               Ret([is_upcoming |-> is_upcoming(event, at),
                    is_ongoing |-> is_ongoing(event, at),
                    is_finished |-> is_finished(event, at),
                    status_text |-> status_text(event, at)]))

\* TimeGroupedEvents.from_events(events) is called: time_groups = {}
Call_from_events ==
  /\ m_pc = "idle"
  /\ \E events \in SeqsUpTo(GroupEvents, MaxEvents) : m_arg' = PyList(events)
  /\ m_op' = "from_events"
  /\ m_pc' = "loop"
  /\ ev_i' = 1
  /\ time_groups' = <<>>
  /\ read_at' = <<>>
  /\ UNCHANGED m_ret
  /\ UNCHANGED <<cache_vars, unit_vars, task_vars, api_vars, host_vars>>

\* One pass of the loop of from_events; is_ongoing reads the clock.
FromEventsStep ==
  /\ m_pc = "loop"
  /\ ev_i <= Len(m_arg.v)
  /\ LET r == from_events_body(time_groups, m_arg.v[ev_i], now) IN
     IF r.raised
     THEN /\ m_ret' = r
          /\ m_pc' = "done"
          /\ UNCHANGED <<ev_i, time_groups>>
     ELSE /\ time_groups' = r.val
          /\ ev_i' = ev_i + 1
          /\ UNCHANGED <<m_ret, m_pc>>
  /\ read_at' = Append(read_at, now)
  /\ UNCHANGED <<m_op, m_arg>>
  /\ UNCHANGED <<cache_vars, unit_vars, task_vars, api_vars, host_vars>>

\* return cls(time_groups=time_groups)
FromEventsReturn ==
  /\ m_pc = "loop"
  /\ ev_i > Len(m_arg.v)
  /\ m_ret' = Ret(TimeGroupedEvents(time_groups))
  /\ m_pc' = "done"
  /\ UNCHANGED <<m_op, m_arg, ev_i, time_groups, read_at>>
  /\ UNCHANGED <<cache_vars, unit_vars, task_vars, api_vars, host_vars>>

\* The caller takes the result.
ModelReturn ==
  /\ m_pc = "done"
  /\ m_pc' = "idle"
  /\ m_op' = "none"
  /\ m_arg' = None
  /\ m_ret' = Ret(None)
  /\ ev_i' = 0
  /\ time_groups' = <<>>
  /\ read_at' = <<>>
  /\ UNCHANGED <<cache_vars, unit_vars, task_vars, api_vars, host_vars>>

(***************************************************************************)
(* renderer.py.  A text is the sequence of its pieces, a placeholder token *)
(* being a piece of its own wherever it occurs, in a template or inside a  *)
(* string of the payload.                                                  *)
(***************************************************************************)
AcgListToken == "@@acg_list@@"
GuestListToken == "@@guest_list@@"
Tokens == {AcgListToken, GuestListToken}

TemplateNames == {"acg_list.html", "acg_list_times.html", "acg_list_guest.html"}

\* The templates _create_default_templates writes: the script of each holds
\* every token of its render call once.
DefaultTemplate(name) ==
  CASE name = "acg_list.html" ->
         <<"<script>const events = ", AcgListToken, ";</script><div id=app>">>
    [] name = "acg_list_times.html" ->
         <<"<script>const timeGroups = ", AcgListToken, ";</script><div id=app>">>
    [] name = "acg_list_guest.html" ->
         <<"<script>const events = ", AcgListToken, "; const guests = ",
           GuestListToken, ";</script><div id=app>">>

\* _get_fallback_template(): a page that says the template failed to load;
\* it holds no token.
FallbackTemplate == <<"<div id=app>template load failed; check the template file</div>">>

\* text.replace(old, new): every occurrence of old is replaced.
RECURSIVE str_replace(_, _, _)
str_replace(text, old, new) ==
  IF text = <<>> THEN <<>>
  ELSE (IF Head(text) = old THEN new ELSE <<Head(text)>>)
         \o str_replace(Tail(text), old, new)

\* text.count(old)
str_count(text, old) == Cardinality({i \in 1..Len(text) : text[i] = old})

\* obj.__dict__ of a dataclass instance
dunder_dict(obj) == PyDict([f \in DOMAIN obj \ {"t"} |-> obj[f]])

\* A str as json.dumps(..., ensure_ascii=False) writes it.
json_string(s) == IF s \in Tokens THEN <<"'", s, "'">> ELSE <<"'" \o s \o "'">>

\* json.dumps(x): None, int, str, list and dict are written out; an
\* instance of a dataclass is not JSON serializable (TypeError).
RECURSIVE json_dumps(_)
RECURSIVE json_dumps_items(_)
RECURSIVE json_dumps_fields(_, _)
json_dumps(x) ==
  CASE x.t = "None" -> Ret(<<"null">>)
    [] x.t = "int" -> Ret(<<ToString(x.v)>>)
    [] x.t = "str" -> Ret(json_string(x.v))
    [] x.t = "list" ->
         LET r == json_dumps_items(x.v) IN
         IF r.raised THEN r ELSE Ret(<<"[">> \o r.val \o <<"]">>)
    [] x.t = "dict" ->
         LET r == json_dumps_fields(x.v, KeysSeq(DOMAIN x.v)) IN
         IF r.raised THEN r ELSE Ret(<<"{">> \o r.val \o <<"}">>)
    [] OTHER -> Raise("TypeError")

json_dumps_items(items) ==
  IF items = <<>> THEN Ret(<<>>)
  ELSE LET h == json_dumps(Head(items)) IN
       IF h.raised THEN h
       ELSE LET r == json_dumps_items(Tail(items)) IN
            IF r.raised THEN r
            ELSE Ret(h.val \o (IF Tail(items) = <<>> THEN <<>> ELSE <<",">>) \o r.val)

json_dumps_fields(d, keys) ==
  IF keys = <<>> THEN Ret(<<>>)
  ELSE LET h == json_dumps(d[Head(keys).v]) IN
       IF h.raised THEN h
       ELSE LET r == json_dumps_fields(d, Tail(keys)) IN
            IF r.raised THEN r
            ELSE Ret(<<"'" \o Head(keys).v \o "':">> \o h.val
                     \o (IF Tail(keys) = <<>> THEN <<>> ELSE <<",">>) \o r.val)

\* [x.__dict__ for x in objects]
RECURSIVE dicts_of(_)
dicts_of(objects) ==
  IF objects = <<>> THEN <<>>
  ELSE <<dunder_dict(Head(objects))>> \o dicts_of(Tail(objects))

\* time_groups_data of render_acg_calendar: bucket key -> list of dicts.
\* Bucket keys are the start_time texts.
json_key(k) == IF k.t = "None" THEN "null" ELSE str(k).v

time_groups_data(groups) ==
  PyDict([k \in {json_key(groups[j].key) : j \in 1..Len(groups)} |->
            LET j == CHOOSE j \in 1..Len(groups) : json_key(groups[j].key) = k
            IN PyList(dicts_of(groups[j].events))])

\* One template.replace(token, payload) as a render call makes it: the text
\* it was applied to, the token, the payload and the text it gave.
Sub(text, token, payload) ==
  [on |-> text, token |-> token, payload |-> payload,
   gave |-> str_replace(text, token, payload)]

\* The substitutions of a render call on the template it loaded: Raise when
\* json.dumps raises, else Ret of the replace calls in the order made.
render_acg_list_subs(tpl, events) ==
  LET d == json_dumps(PyList(dicts_of(events))) IN
  IF d.raised THEN d ELSE Ret(<<Sub(tpl, AcgListToken, d.val)>>)

render_acg_calendar_subs(tpl, time_grouped_events) ==
  LET d == json_dumps(time_groups_data(time_grouped_events.time_groups)) IN
  IF d.raised THEN d ELSE Ret(<<Sub(tpl, AcgListToken, d.val)>>)

\* The guest list is dumped and substituted first; the events are dumped
\* next and substituted into the text the first replace gave.
render_guest_events_subs(tpl, guests, events) ==
  LET g == json_dumps(PyList(dicts_of(guests))) IN
  IF g.raised THEN g
  ELSE LET first == Sub(tpl, GuestListToken, g.val)
           e == json_dumps(PyList(events))
       IN IF e.raised THEN e
          ELSE Ret(<<first, Sub(first.gave, AcgListToken, e.val)>>)

\* What the render calls of the program are given: parsed events, the
\* groups of from_events, parsed guests (one of them named like a token) and
\* the tagged events of search_guest_events.
RenderOps == {"render_acg_list", "render_acg_calendar", "render_guest_events"}

EventA == ACGEvent_from_dict(ItemA).val
EventB == ACGEvent_from_dict(ItemB).val
GuestAlice == Guest_from_dict(GuestItem1).val
GuestToken ==
  Guest_from_dict(PyDict([id |-> PyStr("g3"), name |-> PyStr(AcgListToken)])).val

ListInputs == {<<EventA>>, <<EventA, EventB>>}
CalendarInputs ==
  {TimeGroupedEvents(<<[key |-> EventA.start_time, events |-> events]>>) :
     events \in ListInputs}
GuestInputs ==
  {[guests |-> guests, events |-> events] :
     guests \in {<<GuestAlice>>, <<GuestToken>>, <<GuestAlice, GuestToken>>},
     events \in {<<>>, <<TaggedEvent(EventA, GuestAlice)>>}}

NoExc == [type |-> "", at |-> ""]
Exc(type, at) == [type |-> type, at |-> at]
Exited == {"returned", "raised", "cancelled"}

\* The template file of a render call.
template_name(op) ==
  CASE op = "render_acg_list" -> "acg_list.html"
    [] op = "render_acg_calendar" -> "acg_list_times.html"
    [] op = "render_guest_events" -> "acg_list_guest.html"

\* The replace calls of a render call.
subs_of(op, tpl, args) ==
  CASE op = "render_acg_list" -> render_acg_list_subs(tpl, args)
    [] op = "render_acg_calendar" -> render_acg_calendar_subs(tpl, args)
    [] op = "render_guest_events" ->
         render_guest_events_subs(tpl, args.guests, args.events)

\* element.screenshot(): the picture of the page composed.
Screenshot(html) == [t |-> "bytes", of |-> html]

\* Leaving "async with async_playwright()", but the driver leaves the
\* browsers it launched running.
playwright_exit_detached(b) == b

\* Leaving "async with async_playwright()" stops the driver, which closes
\* every browser it launched that is still open.
playwright_exit(b) == IF b = "open" THEN "closed" ELSE b

RenderInit ==
  /\ r_pc = "idle"
  /\ r_op = "none"
  /\ r_args = None
  /\ r_ret = Ret(None)
  /\ r_exc = NoExc
  /\ disk = {}
  /\ template = <<>>
  /\ load_failed = FALSE
  /\ html_content = <<>>
  /\ subs = <<>>
  /\ playwright = "stopped"
  /\ browser = "none"
  /\ client = "none"

\* A render call begins.
StartRender(name, args) ==
  /\ r_pc = "idle"
  /\ r_op' = name
  /\ r_args' = args
  /\ r_pc' = "load"
  /\ UNCHANGED <<r_ret, r_exc, disk, template, load_failed, html_content, subs,
                 playwright, browser, client>>

\* Direct calls of the three render calls.
Call_render_acg_list ==
  /\ h_pc = "idle"
  /\ \E events \in ListInputs : StartRender("render_acg_list", events)
  /\ UNCHANGED <<api_vars, cache_vars, unit_vars, task_vars, model_vars, cmd_vars>>

Call_render_acg_calendar ==
  /\ h_pc = "idle"
  /\ \E groups \in CalendarInputs : StartRender("render_acg_calendar", groups)
  /\ UNCHANGED <<api_vars, cache_vars, unit_vars, task_vars, model_vars, cmd_vars>>

Call_render_guest_events ==
  /\ h_pc = "idle"
  /\ \E args \in GuestInputs : StartRender("render_guest_events", args)
  /\ UNCHANGED <<api_vars, cache_vars, unit_vars, task_vars, model_vars, cmd_vars>>

\* _load_template: a missing file has _create_default_templates write the
\* three templates, each write failing or not (a failure is logged and
\* passed over); then the file is read, and when the read raises (the file
\* is still missing, or cannot be read) the fallback template is returned.
LoadTemplate ==
  /\ r_pc = "load"
  /\ \E created \in SUBSET TemplateNames, readable \in BOOLEAN :
       LET name == template_name(r_op)
           files == IF name \in disk THEN disk ELSE disk \cup created
           ok == name \in files /\ readable
       IN /\ disk' = files
          /\ template' = IF ok THEN DefaultTemplate(name) ELSE FallbackTemplate
          /\ load_failed' = ~ok
  /\ r_pc' = "substitute"
  /\ UNCHANGED <<r_op, r_args, r_ret, r_exc, html_content, subs, playwright,
                 browser, client>>
  /\ UNCHANGED <<api_vars, cache_vars, unit_vars, task_vars, model_vars, cmd_vars>>

\* The payloads are dumped and substituted; an exception of json.dumps is
\* logged by the render call and raised again.
Substitute ==
  /\ r_pc = "substitute"
  /\ LET r == subs_of(r_op, template, r_args) IN
     IF r.raised
     THEN /\ r_ret' = r
          /\ r_exc' = Exc(r.val.v, "substitute")
          /\ r_pc' = "raised"
          /\ UNCHANGED <<subs, html_content>>
     ELSE /\ subs' = r.val
          /\ html_content' = r.val[Len(r.val)].gave
          /\ r_pc' = "playwright"
          /\ UNCHANGED <<r_ret, r_exc>>
  /\ UNCHANGED <<r_op, r_args, disk, template, load_failed, playwright, browser, client>>
  /\ UNCHANGED <<api_vars, cache_vars, unit_vars, task_vars, model_vars, cmd_vars>>

\* One awaited step of _capture_element_screenshot inside the "async with":
\* it succeeds, or it raises and the block is left.
CaptureStep(at, next, done) ==
  /\ r_pc = at
  /\ \E ok \in BOOLEAN :
       IF ok
       THEN done /\ r_pc' = next /\ UNCHANGED r_exc
       ELSE /\ r_exc' = Exc("Error", at)
            /\ r_pc' = "exit"
            /\ UNCHANGED <<browser, r_ret>>
  /\ UNCHANGED <<r_op, r_args, disk, template, load_failed, html_content, subs,
                 playwright, client>>
  /\ UNCHANGED <<api_vars, cache_vars, unit_vars, task_vars, model_vars, cmd_vars>>

\* "async with async_playwright() as p": the driver is started; when that
\* fails there is nothing to leave.
PlaywrightEnter ==
  /\ r_pc = "playwright"
  /\ \E ok \in BOOLEAN :
       IF ok
       THEN playwright' = "started" /\ r_pc' = "launch" /\ UNCHANGED <<r_exc, r_ret>>
       ELSE /\ r_exc' = Exc("Error", "playwright")
            /\ r_ret' = Raise("Error")
            /\ r_pc' = "raised"
            /\ UNCHANGED playwright
  /\ UNCHANGED <<r_op, r_args, disk, template, load_failed, html_content, subs,
                 browser, client>>
  /\ UNCHANGED <<api_vars, cache_vars, unit_vars, task_vars, model_vars, cmd_vars>>

\* browser = await p.chromium.launch(...)
Launch ==
  /\ r_pc = "launch"
  /\ CaptureStep("launch", "page", browser' = "open" /\ UNCHANGED r_ret)

\* new_page, set_viewport_size, set_content and wait_for_timeout
PageSetup ==
  /\ r_pc = "page"
  /\ CaptureStep("page", "screenshot", UNCHANGED <<browser, r_ret>>)

\* screenshot = await element.screenshot()
TakeScreenshot ==
  /\ r_pc = "screenshot"
  /\ CaptureStep("screenshot", "close",
                 r_ret' = Ret(Screenshot(html_content)) /\ UNCHANGED browser)

\* await browser.close()
BrowserClose ==
  /\ r_pc = "close"
  /\ CaptureStep("close", "exit", browser' = "closed" /\ UNCHANGED r_ret)

\* The task is cancelled while it waits in one of the awaits of the block:
\* CancelledError is raised there and the block is left.
CancelCapture ==
  /\ r_pc \in {"launch", "page", "screenshot", "close"}
  /\ r_exc' = Exc("CancelledError", r_pc)
  /\ r_pc' = "exit"
  /\ UNCHANGED <<r_op, r_args, r_ret, disk, template, load_failed, html_content,
                 subs, playwright, browser, client>>
  /\ UNCHANGED <<api_vars, cache_vars, unit_vars, task_vars, model_vars, cmd_vars>>

\* The "async with" block is left, by "return screenshot" or by an
\* exception; "except Exception" logs and raises again, CancelledError
\* passes it by.
PlaywrightExit ==
  /\ r_pc = "exit"
  /\ r_op \in RenderOps
  /\ playwright' = "stopped"
  /\ browser' = playwright_exit(browser)
  /\ IF r_exc = NoExc
     THEN r_pc' = "returned" /\ UNCHANGED r_ret
     ELSE /\ r_ret' = Raise(r_exc.type)
          /\ r_pc' = IF r_exc.type = "CancelledError" THEN "cancelled" ELSE "raised"
  /\ UNCHANGED <<r_op, r_args, r_exc, disk, template, load_failed, html_content,
                 subs, client>>
  /\ UNCHANGED <<api_vars, cache_vars, unit_vars, task_vars, model_vars, cmd_vars>>

\* _make_request: "async with httpx.AsyncClient(...) as client" is entered.
Call__make_request ==
  /\ r_pc = "idle"
  /\ h_pc = "idle"
  /\ r_op' = "_make_request"
  /\ r_pc' = "request"
  /\ client' = "open"
  /\ UNCHANGED <<r_args, r_ret, r_exc, disk, template, load_failed, html_content,
                 subs, playwright, browser>>
  /\ UNCHANGED <<api_vars, cache_vars, unit_vars, task_vars, model_vars, cmd_vars>>

\* The awaited client.get answers or raises; the envelope to return is the
\* one _make_request makes of the outcome.
RequestAnswer ==
  /\ r_pc = "request"
  /\ \E o \in Failures \cup {Http(200, EmptyDict), Http(500, NotJson)} :
       /\ r_ret' = _make_request("GET", o)
       /\ r_exc' = IF o \in Failures THEN Exc(o.kind, "request") ELSE NoExc
  /\ r_pc' = "client_exit"
  /\ UNCHANGED <<r_op, r_args, disk, template, load_failed, html_content, subs,
                 playwright, browser, client>>
  /\ UNCHANGED <<api_vars, cache_vars, unit_vars, task_vars, model_vars, cmd_vars>>

\* The task is cancelled while the request is in flight.
CancelRequest ==
  /\ r_pc = "request"
  /\ r_exc' = Exc("CancelledError", "request")
  /\ r_ret' = Raise("CancelledError")
  /\ r_pc' = "client_exit"
  /\ UNCHANGED <<r_op, r_args, disk, template, load_failed, html_content, subs,
                 playwright, browser, client>>
  /\ UNCHANGED <<api_vars, cache_vars, unit_vars, task_vars, model_vars, cmd_vars>>

\* The "async with" of the client is left: the client is closed.  The
\* except clauses have turned a transport exception into an envelope.
ClientExit ==
  /\ r_pc = "client_exit"
  /\ client' = "closed"
  /\ r_pc' = IF r_exc.type = "CancelledError" THEN "cancelled" ELSE "returned"
  /\ UNCHANGED <<r_op, r_args, r_ret, r_exc, disk, template, load_failed,
                 html_content, subs, playwright, browser>>
  /\ UNCHANGED <<api_vars, cache_vars, unit_vars, task_vars, model_vars, cmd_vars>>

\* The direct caller takes the result.  The template files stay on disk.
RenderReturn ==
  /\ r_pc \in Exited
  /\ h_pc = "idle"
  /\ r_pc' = "idle"
  /\ r_op' = "none"
  /\ r_args' = None
  /\ r_ret' = Ret(None)
  /\ r_exc' = NoExc
  /\ template' = <<>>
  /\ load_failed' = FALSE
  /\ html_content' = <<>>
  /\ subs' = <<>>
  /\ browser' = "none"
  /\ client' = "none"
  /\ UNCHANGED <<disk, playwright>>
  /\ UNCHANGED <<api_vars, cache_vars, unit_vars, task_vars, model_vars, cmd_vars>>

(***************************************************************************)
(* main.py: the command handlers, one invocation at a time.  A handler     *)
(* runs from its call to its first await, from the answer of the API       *)
(* client to its reply or to the awaited render call, and from the end of  *)
(* the render call to its reply.  (get_api_client() is never None after    *)
(* __init__.)                                                              *)
(***************************************************************************)
\* What a stretch of a handler ends in: the messages it yields before it
\* returns, or the render call it awaits.
Say(kind) == [do |-> "reply", kinds |-> <<kind>>]
Await(op, args) == [do |-> "render", op |-> op, args |-> args]

NoImage == Ret(None)

\* TimeGroupedEvents.from_events(events) run without a break at the time t.
RECURSIVE from_events_loop(_, _, _)
from_events_loop(groups, events, t) ==
  IF events = <<>> THEN Ret(TimeGroupedEvents(groups))
  ELSE LET r == from_events_body(groups, Head(events), t) IN
       IF r.raised THEN r ELSE from_events_loop(r.val, Tail(events), t)

from_events(events, t) == from_events_loop(<<>>, events, t)

\* search_guest_events past the guest list: the loop over the guests found,
\* answers holding the answer of the request made for each.
RECURSIVE guest_loop(_, _, _, _)
guest_loop(guests, i, events, answers) ==
  IF i > Len(guests) THEN Ret(search_result(guests, events))
  ELSE LET r == guest_loop_body(events, guests[i], get_guest_acg_list(answers[i]).val)
       IN IF r.raised THEN r ELSE guest_loop(guests, i + 1, r.val, answers)

search_guest_events(o, answers) ==
  LET guest_response == get_guest_list(o).val
      head == guest_search_head(guest_response)
  IN Caught(IF head.raised \/ head.val # None THEN head
            ELSE guest_loop(guest_response.data.data.v, 1, <<>>, answers),
            "search guest events failed")

\* The text format of the calendar: get_total_count, get_days_until_start
\* (which catches what it raises), len and attribute reads of parsed events.
calendar_text(time_grouped) == {Say("text")}

\* acg_calendar_command from "if not response.success".
calendar_body(resp, config, t) ==
  IF ~resp.success THEN {Say("failure")}
  ELSE LET acg_list == resp.data IN
       IF acg_list.t # "ACGListResponse" THEN {Say("error")}
       ELSE IF ~Truthy(acg_list.data) THEN {Say("empty")}
       ELSE LET time_grouped == from_events(acg_list.data.v, t) IN
            IF time_grouped.raised THEN {Say("error")}
            ELSE IF config.enable_image_render
            THEN {Await("render_acg_calendar", time_grouped.val)}
            ELSE calendar_text(time_grouped.val)

\* search_text, but an exception of the text format is logged and the
\* handler returns without a message.
search_text_silent(acg_list) ==
  IF \/ \E i \in 1..Len(acg_list.data.v) :
          i <= 5 /\ price_range_yuan(acg_list.data.v[i]).raised
     \/ acg_list.count.t # "int"
  THEN {[do |-> "reply", kinds |-> <<>>]}
  ELSE {Say("text")}

\* The text format of the search: price_range_yuan of the first five events
\* and "acg_list.count > 5" raise TypeError on values that are no numbers.
search_text(acg_list) ==
  IF \/ \E i \in 1..Len(acg_list.data.v) :
          i <= 5 /\ price_range_yuan(acg_list.data.v[i]).raised
     \/ acg_list.count.t # "int"
  THEN {Say("error")}
  ELSE {Say("text")}

\* acg_search_command from "if not response.success".
search_body(resp, config) ==
  IF ~resp.success THEN {Say("failure")}
  ELSE LET acg_list == resp.data IN
       IF acg_list.t # "ACGListResponse" THEN {Say("error")}
       ELSE IF ~Truthy(acg_list.data) THEN {Say("empty")}
       ELSE IF config.enable_image_render
       THEN {Await("render_acg_list", acg_list.data.v)}
       ELSE search_text(acg_list)

\* The text format of the guest search: for each guest the events are
\* filtered by e.get("guest", {}).get("id"), which raises AttributeError
\* when the value under "guest" is not a dict.
guest_text(guests, events) ==
  IF \E i \in 1..Len(events) : DictGet(events[i], "guest", EmptyDict).t # "dict"
  THEN {Say("error")}
  ELSE {Say("text")}

\* guest_search_command from "if not response.success".
guest_body(resp, config) ==
  IF ~resp.success THEN {Say("failure")}
  ELSE LET result_data == resp.data.v
           guests == result_data.guests
           events == result_data.events
       IN IF ~Truthy(guests) THEN {Say("empty")}
          ELSE IF config.enable_image_render
          THEN {Await("render_guest_events", [guests |-> guests.v, events |-> events.v])}
          ELSE guest_text(guests.v, events.v)

\* acg_info_command from "if not response.success": the lines of the text
\* read price_range_yuan and status_text; with a cover the image reply is
\* tried first, and the plain text follows when building it raises.
info_body(resp, t) ==
  IF ~resp.success THEN {Say("failure")}
  ELSE LET event_info == resp.data IN
       IF event_info.t # "ACGEvent" THEN {Say("error")}
       ELSE IF price_range_yuan(event_info).raised \/ status_text(event_info, t).raised
       THEN {Say("error")}
       ELSE IF Truthy(event_info.cover) THEN {Say("image"), Say("text")}
       ELSE {Say("text")}

\* acg_location_command from "if not response.success".
location_body(resp) ==
  IF ~resp.success THEN {Say("failure")}
  ELSE IF resp.data.t # "ACGEvent" THEN {Say("error")}
  ELSE {Say("text")}

\* The text path a handler takes when its render call has raised.
text_after_render(cmd, resp) ==
  CASE cmd = "calendar" -> calendar_text(resp.data)
    [] cmd = "search" -> search_text(resp.data)
    [] cmd = "guest_search" ->
         guest_text(resp.data.v.guests.v, resp.data.v.events.v)

\* Answers of the upstream API to the requests of the handlers.
ItemNoPrice == PyDict([id |-> PyStr("N1"), project_name |-> PyStr("Expo N"),
                       min_price |-> None, max_price |-> None])
ItemCover == PyDict([id |-> PyStr("C1"), cover |-> PyStr("https://img/c1.png")])

ListOf(items) == Http(200, PyDict([count |-> PyInt(Len(items)), data |-> PyList(items)]))

SearchOutcomes ==
  {Timeout, Http(200, EmptyDict), ListOf(<<>>), ListOf(<<ItemA>>), ListOf(<<ItemNoPrice>>)}

InfoOutcomes ==
  {Timeout, Http(200, EmptyDict), Http(200, PyDict([data |-> ItemA])),
   Http(200, PyDict([data |-> ItemCover])), Http(200, PyDict([data |-> ItemNoPrice]))}

GuestListOutcomes ==
  {Timeout, Http(200, PyDict([data |-> PyList(<<>>)])),
   Http(200, PyDict([data |-> PyList(<<GuestItem1>>)]))}

GuestEventsOutcomes ==
  {Timeout,
   Http(200, PyDict([data |-> PyDict([guest |-> GuestItem1, projects |-> PyList(<<>>)])])),
   Http(200, PyDict([data |-> PyDict([guest |-> GuestItem1,
                                      projects |-> PyList(<<ItemA>>)])]))}

StatusOutcomes == {Timeout, ListOf(<<ItemA>>), Http(500, NotJson)}

\* The host unloads the plugin and loads it again with other switches:
\* terminate() clears the cache, __init__ reads the configuration.  The
\* template files stay on disk.
Reload ==
  /\ h_pc = "idle"
  /\ r_pc = "idle"
  /\ \E config \in [enable_image_render : BOOLEAN, enable_guest_search : BOOLEAN] :
       /\ config # h_config
       /\ h_config' = config
  /\ cache' = <<>>
  /\ UNCHANGED <<h_pc, h_cmd, h_arg, h_response, h_replies, h_image, render_vars>>
  /\ UNCHANGED <<now, api_vars, unit_vars, task_vars, model_vars>>

\* The handler begins.
Invoke(cmd, arg) ==
  /\ h_pc = "idle"
  /\ r_pc = "idle"
  /\ h_cmd' = cmd
  /\ h_arg' = arg
  /\ UNCHANGED <<h_config, h_image>>

\* The handler yields the messages of the step and returns, or awaits the
\* render call of the step.
Proceed(step) ==
  IF step.do = "reply"
  THEN /\ h_replies' = h_replies \o step.kinds
       /\ h_pc' = "done"
       /\ UNCHANGED render_vars
  ELSE /\ h_pc' = "await_render"
       /\ StartRender(step.op, step.args)
       /\ UNCHANGED h_replies

\* acg_calendar_command up to its reply, its request or its render call.
Invoke_calendar ==
  /\ h_pc = "idle"
  /\ \E arg \in CityArgs :
       LET c == IF arg = "" THEN default_city ELSE arg
           got == get_cached_data(cache, cache_key(c), now)
       IN /\ Invoke("calendar", c)
          /\ cache' = got.cache
          /\ IF calendar_branch(got.ret)
             THEN /\ h_response' = got.ret
                  /\ \E step \in calendar_body(got.ret, h_config, now) : Proceed(step)
             ELSE /\ h_pc' = "await_api"
                  /\ UNCHANGED <<h_response, h_replies, render_vars>>
  /\ UNCHANGED <<now, api_vars, unit_vars, task_vars, model_vars>>

\* A handler that needs an argument: without one it answers with the usage.
InvokeWithArg(cmd, args) ==
  /\ \E arg \in args :
       /\ Invoke(cmd, arg)
       /\ IF arg = ""
          THEN Proceed(Say("usage"))
          ELSE h_pc' = "await_api" /\ UNCHANGED <<h_replies, render_vars>>
  /\ UNCHANGED h_response
  /\ UNCHANGED <<cache_vars, api_vars, unit_vars, task_vars, model_vars>>

Invoke_location ==
  /\ h_pc = "idle"
  /\ InvokeWithArg("location", {"", "A1"})

Invoke_info ==
  /\ h_pc = "idle"
  /\ InvokeWithArg("info", {"", "A1"})

Invoke_search ==
  /\ h_pc = "idle"
  /\ InvokeWithArg("search", {"", "expo"})

\* guest_search_command: the switch of the configuration comes first.
Invoke_guest_search ==
  /\ h_pc = "idle"
  /\ IF ~h_config.enable_guest_search
     THEN /\ \E arg \in {"", "Alice"} : Invoke("guest_search", arg)
          /\ Proceed(Say("disabled"))
          /\ UNCHANGED h_response
          /\ UNCHANGED <<cache_vars, api_vars, unit_vars, task_vars, model_vars>>
     ELSE InvokeWithArg("guest_search", {"", "Alice"})

\* acg_status_command up to "await api_client.test_connection()".
Invoke_status ==
  /\ h_pc = "idle"
  /\ Invoke("status", "")
  /\ h_pc' = "await_api"
  /\ UNCHANGED <<h_response, h_replies, render_vars>>
  /\ UNCHANGED <<cache_vars, api_vars, unit_vars, task_vars, model_vars>>

\* The awaited call of the API client has answered with response, and the
\* handler goes on to one of steps.
Answered(cmd, resp, steps) ==
  /\ h_pc = "await_api"
  /\ h_cmd = cmd
  /\ h_response' = resp
  /\ \E step \in steps : Proceed(step)
  /\ UNCHANGED <<h_cmd, h_arg, h_config, h_image>>
  /\ UNCHANGED <<now, api_vars, unit_vars, task_vars, model_vars>>

ApiAnswer_calendar ==
  /\ h_cmd = "calendar"
  /\ \E o \in CalendarOutcomes :
       LET resp == get_city_acg_calendar(o).val IN
       /\ Answered("calendar", resp, calendar_body(resp, h_config, now))
       /\ cache' = IF resp.success
                   THEN set_cached_data(cache, cache_key(h_arg), resp, now)
                   ELSE cache

ApiAnswer_location ==
  /\ h_cmd = "location"
  /\ \E o \in InfoOutcomes :
       LET resp == get_acg_info(h_arg, o).val IN
       Answered("location", resp, location_body(resp))
  /\ UNCHANGED cache

ApiAnswer_info ==
  /\ h_cmd = "info"
  /\ \E o \in InfoOutcomes :
       LET resp == get_acg_info(h_arg, o).val IN
       Answered("info", resp, info_body(resp, now))
  /\ UNCHANGED cache

ApiAnswer_search ==
  /\ h_cmd = "search"
  /\ \E o \in SearchOutcomes :
       LET resp == search_acg_events(o).val IN
       Answered("search", resp, search_body(resp, h_config))
  /\ UNCHANGED cache

ApiAnswer_guest_search ==
  /\ h_cmd = "guest_search"
  /\ \E o \in GuestListOutcomes, answer \in GuestEventsOutcomes :
       LET resp == search_guest_events(o, <<answer>>).val IN
       Answered("guest_search", resp, guest_body(resp, h_config))
  /\ UNCHANGED cache

\* acg_status_command after the connection test: the status text.
ApiAnswer_status ==
  /\ h_cmd = "status"
  /\ \E o \in StatusOutcomes :
       Answered("status", test_connection(o).val, {Say("text")})
  /\ UNCHANGED cache

\* The awaited render call is over: its image bytes are the reply, or it
\* raised, the exception is logged and the handler goes on to the text
\* format.
AfterRender ==
  /\ h_pc = "await_render"
  /\ r_pc \in {"returned", "raised"}
  /\ h_image' = r_ret
  /\ \E step \in (IF r_ret.raised THEN text_after_render(h_cmd, h_response)
                  ELSE {Say("image")}) :
       /\ h_replies' = h_replies \o step.kinds
       /\ h_pc' = "done"
  /\ r_pc' = "idle"
  /\ r_op' = "none"
  /\ r_args' = None
  /\ r_ret' = Ret(None)
  /\ r_exc' = NoExc
  /\ template' = <<>>
  /\ load_failed' = FALSE
  /\ html_content' = <<>>
  /\ subs' = <<>>
  /\ browser' = "none"
  /\ client' = "none"
  /\ UNCHANGED <<disk, playwright>>
  /\ UNCHANGED <<h_cmd, h_arg, h_config, h_response>>
  /\ UNCHANGED <<cache_vars, api_vars, unit_vars, task_vars, model_vars>>

\* The handler has ended and its locals are gone.
HandlerEnd ==
  /\ h_pc = "done"
  /\ h_pc' = "idle"
  /\ h_cmd' = "none"
  /\ h_arg' = ""
  /\ h_response' = None
  /\ h_replies' = <<>>
  /\ h_image' = NoImage
  /\ UNCHANGED <<h_config, render_vars>>
  /\ UNCHANGED <<cache_vars, api_vars, unit_vars, task_vars, model_vars>>

CommandInit ==
  /\ h_pc = "idle"
  /\ h_cmd = "none"
  /\ h_arg = ""
  /\ h_config = [enable_image_render |-> TRUE, enable_guest_search |-> TRUE]
  /\ h_response = None
  /\ h_replies = <<>>
  /\ h_image = NoImage

(***************************************************************************)
(* Specifications                                                          *)
(***************************************************************************)
Init == ApiInit /\ CacheInit /\ TaskInit /\ ModelInit /\ RenderInit /\ CommandInit

SpecApi == Init /\ [][ApiNext]_vars

CacheNext ==
  \/ Call_set_cached_data
  \/ Call_get_cached_data
  \/ Call_terminate
  \/ Tick

SpecCache == Init /\ [][CacheNext]_vars

PluginNext ==
  \/ \E t \in Tasks : Start(t)
  \/ \E t \in Tasks : GetLookup(t)
  \/ \E t \in Tasks : GetCheck(t)
  \/ \E t \in Tasks : GetDel(t)
  \/ \E t \in Tasks : Branch(t)
  \/ \E t \in Tasks : ApiAnswer(t)
  \/ \E t \in Tasks : Store(t)
  \/ \E t \in Tasks : Respond(t)
  \/ \E t \in Tasks : RenderAnswer(t)
  \/ \E t \in Tasks : Finish(t)
  \/ Tick

SpecPlugin == Init /\ [][PluginNext]_vars

ModelsNext ==
  \/ Call_from_dict
  \/ Call_price_range_yuan
  \/ Call_get_days_until_start
  \/ Call_calculateDaysUntil
  \/ Call_status
  \/ Call_from_events
  \/ FromEventsStep
  \/ FromEventsReturn
  \/ ModelReturn
  \/ Tick

SpecModels == Init /\ [][ModelsNext]_vars

RenderNext ==
  \/ Call_render_acg_list
  \/ Call_render_acg_calendar
  \/ Call_render_guest_events
  \/ LoadTemplate
  \/ Substitute
  \/ PlaywrightEnter
  \/ Launch
  \/ PageSetup
  \/ TakeScreenshot
  \/ BrowserClose
  \/ CancelCapture
  \/ PlaywrightExit
  \/ Call__make_request
  \/ RequestAnswer
  \/ CancelRequest
  \/ ClientExit
  \/ RenderReturn

SpecRender == Init /\ [][RenderNext]_vars

CommandsNext ==
  \/ Reload
  \/ Invoke_calendar
  \/ Invoke_location
  \/ Invoke_info
  \/ Invoke_search
  \/ Invoke_guest_search
  \/ Invoke_status
  \/ ApiAnswer_calendar
  \/ ApiAnswer_location
  \/ ApiAnswer_info
  \/ ApiAnswer_search
  \/ ApiAnswer_guest_search
  \/ ApiAnswer_status
  \/ LoadTemplate
  \/ Substitute
  \/ PlaywrightEnter
  \/ Launch
  \/ PageSetup
  \/ TakeScreenshot
  \/ BrowserClose
  \/ PlaywrightExit
  \/ AfterRender
  \/ HandlerEnd

SpecCommands == Init /\ [][CommandsNext]_vars
(***************************************************************************)
(* Properties of the API client                                            *)
(***************************************************************************)
ApiDone(name) == api_pc = "done" /\ api_op = name

ApiOps ==
  {"get_acg_info", "get_acg_list", "get_guest_list", "get_guest_acg_list",
   "search_acg_events", "get_city_acg_calendar", "search_guest_events",
   "test_connection"}

IsEnvelope(r) == ~r.raised /\ r.val.t = "APIResponse"

\* C4: every API client operation, whatever each of its requests met
\* (timeout, connection failure, other exception, a body that is not JSON, a
\* body of unexpected shape), hands its caller a Success/Failure envelope and
\* never an exception.
C4_AlwaysEnvelope ==
  api_pc = "done" => api_op \in ApiOps /\ IsEnvelope(api_ret)

\* An operation met a decoded body of unexpected shape, the parse raised
\* inside it, and the caller got the Failure that the handler built.
C4_Witness ==
  /\ api_pc = "done"
  /\ api_op \in {"get_acg_list", "search_guest_events"}
  /\ \E i \in 1..Len(api_log) :
       /\ api_log[i].outcome.kind = "http"
       /\ api_log[i].outcome.status = 200
       /\ api_log[i].outcome.body \in {PyList(<<PyInt(1)>>), EmptyDict}
  /\ IsEnvelope(api_ret)
  /\ ~api_ret.val.success
  /\ api_ret.val.message.arg.t = "exc"

TimedOut == \E i \in 1..Len(api_log) : api_log[i].outcome.kind = "timeout"

\* C5: an operation one of whose requests timed out returns a Failure with
\* the timeout status 408, never a Success and never another status.
C5_TimeoutIs408 ==
  (api_pc = "done" /\ TimedOut) =>
    /\ IsEnvelope(api_ret)
    /\ ~api_ret.val.success
    /\ api_ret.val.status_code = TimeoutStatus

\* The nested payload of a detail response is absent: the decoded body is
\* empty ({}, [] or null), has no "data", or has "data": null.
PayloadAbsent(body) ==
  \/ ~Truthy(body)
  \/ body.t = "dict" /\ "data" \notin DOMAIN body.v
  \/ body.t = "dict" /\ "data" \in DOMAIN body.v /\ body.v.data = None

\* C6: get_acg_info answers an HTTP 200 whose nested payload is absent with
\* the not-found Failure (404), and answers Success only with the Event
\* built from a present nested payload.
C6_AbsentPayloadIs404 ==
  ApiDone("get_acg_info") =>
    LET o == api_log[1].outcome IN
    /\ (o.kind = "http" /\ o.status = 200 /\ PayloadAbsent(o.body)) =>
         /\ IsEnvelope(api_ret)
         /\ ~api_ret.val.success
         /\ api_ret.val.status_code = NotFoundStatus
    /\ (IsEnvelope(api_ret) /\ api_ret.val.success) =>
         /\ o.kind = "http" /\ o.body.t = "dict" /\ ~PayloadAbsent(o.body)
         /\ api_ret.val.data.t = "ACGEvent"
         /\ Ret(api_ret.val.data) = ACGEvent_from_dict(o.body.v.data)

\* The guest search of the call in progress succeeded and found no guest.
GuestSearchFoundNone ==
  LET guest_response == get_guest_list(api_log[1].outcome).val IN
  /\ guest_response.success
  /\ guest_response.data.t = "GuestListResponse" => Len(guest_response.data.data.v) = 0

\* C7: when the guest search succeeds with zero guests, search_guest_events
\* returns the no-guest-found Failure, never a Success, and has issued no
\* per-guest request.
C7_NoGuestFound ==
  (ApiDone("search_guest_events") /\ GuestSearchFoundNone) =>
    /\ IsEnvelope(api_ret)
    /\ api_ret.val = error_response(Msg("no guest found", None), NotFoundStatus)
    /\ Len(api_log) = 1
\* What the request for one guest's events fetched: the parsed projects of a
\* successful answer, nothing of a failed one.
FetchedEvents(o) ==
  LET r == get_guest_acg_list(o).val IN
  IF r.success /\ r.data.t = "GuestACGListResponse" THEN r.data.projects.v ELSE <<>>

\* The fetched events of guests 1..n in guest-list order, each with the
\* index of its guest; request i+1 of the call is the fetch for guest i.
RECURSIVE ExpectedPairs(_)
ExpectedPairs(n) ==
  IF n = 0 THEN <<>>
  ELSE LET fetched == FetchedEvents(api_log[n + 1].outcome) IN
       ExpectedPairs(n - 1) \o [k \in 1..Len(fetched) |-> [g |-> n, e |-> fetched[k]]]

SearchSucceeded ==
  ApiDone("search_guest_events") /\ IsEnvelope(api_ret) /\ api_ret.val.success

\* C8: the events of a successful search_guest_events are the concatenation,
\* in guest-list order, of each guest's fetched events in fetched order, each
\* carrying that guest; total_count is the length of that sequence.
C8_Concatenation ==
  SearchSucceeded =>
    LET guests == get_guest_list(api_log[1].outcome).val.data.data.v
        result == api_ret.val.data.v
        events == result.events.v
        expected == ExpectedPairs(Len(guests))
    IN /\ Len(guests) > 0
       /\ Len(api_log) = Len(guests) + 1
       /\ result.guests = PyList(guests)
       /\ Len(events) = Len(expected)
       /\ \A k \in 1..Len(expected) :
            /\ events[k].t = "dict"
            /\ events[k].v.guest = guests[expected[k].g]
            /\ \A f \in DOMAIN expected[k].e \ {"t"} :
                 events[k].v[f] = expected[k].e[f]
       /\ result.total_count = PyInt(Len(expected))

\* Two guests were fetched the same event: it is in the result once for each.
C8_Witness ==
  /\ SearchSucceeded
  /\ LET events == api_ret.val.data.v.events.v IN
     \E j, k \in 1..Len(events) :
       /\ j < k
       /\ events[j].v.id = events[k].v.id
       /\ events[j].v.guest # events[k].v.guest

\* A successful list response: HTTP 200 with a server count and a list of
\* event items.
IsListResponse(o) ==
  /\ o.kind = "http" /\ o.status = 200
  /\ o.body.t = "dict"
  /\ DOMAIN o.body.v = {"count", "data"}
  /\ o.body.v.data.t = "list"
  /\ \A i \in 1..Len(o.body.v.data.v) : o.body.v.data.v[i].t = "dict"

\* C9: for a successful list response with n items get_acg_list returns a
\* ListResponse with the server's count, n events, and as i-th event the
\* parse of the i-th item.
C9_ListPreserved ==
  (ApiDone("get_acg_list") /\ IsListResponse(api_log[1].outcome)) =>
    LET body == api_log[1].outcome.body.v
        items == body.data.v
    IN /\ IsEnvelope(api_ret) /\ api_ret.val.success
       /\ api_ret.val.data.t = "ACGListResponse"
       /\ api_ret.val.data.count = body.count
       /\ Len(api_ret.val.data.data.v) = Len(items)
       /\ \A i \in 1..Len(items) :
            Ret(api_ret.val.data.data.v[i]) = ACGEvent_from_dict(items[i])

\* Two different items arrived with a server count that is not their number.
C9_Witness ==
  /\ ApiDone("get_acg_list") /\ IsListResponse(api_log[1].outcome)
  /\ LET body == api_log[1].outcome.body.v IN
     /\ Len(body.data.v) = 2
     /\ body.data.v[1] # body.data.v[2]
     /\ body.count # PyInt(2)
  /\ api_ret.val.success

\* The body as decoded: the JSON value, or {"error": text} for text that is
\* not JSON.
Decoded(body) ==
  IF body.t = "undecodable" THEN PyDict([error |-> PyStr(body.text)]) ELSE body

\* C10 as stated: every HTTP response with a status in 200..299 becomes a
\* Success envelope wrapping the decoded body.
C10_Every2xxIsSuccess ==
  \A i \in 1..Len(api_log) :
    LET o == api_log[i].outcome IN
    (o.kind = "http" /\ o.status \in 200..299) =>
      /\ api_log[i].response.success
      /\ api_log[i].response.data = Decoded(o.body)

\* C10 as amended: an HTTP response with status 200 becomes a Success
\* envelope wrapping the decoded body; one with any other status, 201..299
\* included, becomes a Failure with that status.
C10_Only200IsSuccess ==
  \A i \in 1..Len(api_log) :
    LET o == api_log[i].outcome IN
    o.kind = "http" =>
      /\ o.status = 200 =>
           /\ api_log[i].response.success
           /\ api_log[i].response.data = Decoded(o.body)
      /\ o.status # 200 =>
           /\ ~api_log[i].response.success
           /\ api_log[i].response.status_code = o.status

\* A 204 arrived and became a Failure; a 200 with a body became a Success.
C10_Witness ==
  /\ api_pc = "done"
  /\ \E i \in 1..Len(api_log) :
       LET o == api_log[i].outcome IN
       /\ o.kind = "http" /\ o.status = 204
       /\ ~api_log[i].response.success

\* The text the lookup table of the transport contract gives a status.
TableText(status) ==
  CASE status = 400 -> "bad request parameters"
    [] status = 404 -> "resource does not exist"
    [] status = 500 -> "internal server error"
    [] status = 502 -> "gateway error"
    [] status = 503 -> "service unavailable"
    [] status = 504 -> "gateway timeout"
    [] OTHER -> "HTTP error " \o ToString(status)

\* C11: every HTTP response with a non-success status becomes a Failure
\* whose status code is the HTTP status and whose message is the lookup-table
\* text for 400, 404, 500, 502, 503 and 504, the generic "HTTP error {code}"
\* text for every other code, followed by the decoded body.
C11_ErrorLookup ==
  \A i \in 1..Len(api_log) :
    LET o == api_log[i].outcome
        r == api_log[i].response
    IN (o.kind = "http" /\ o.status # 200) =>
         /\ ~r.success
         /\ r.status_code = o.status
         /\ r.message.text = TableText(o.status)
         /\ r.message.arg = Decoded(o.body)

\* A 502 with a body that is not JSON became a Failure 502 whose message is
\* the table's text followed by the body.
C11_Witness ==
  /\ api_pc = "done"
  /\ \E i \in 1..Len(api_log) :
       /\ api_log[i].outcome = Http(502, NotJson)
       /\ ~api_log[i].response.success
       /\ api_log[i].response.status_code = 502
       /\ api_log[i].response.message =
            Msg("gateway error", PyDict([error |-> PyStr("<html>")]))

ListOps == {"get_acg_list", "search_acg_events", "get_city_acg_calendar"}

\* The default of each argument of get_acg_list.
ArgDefault(k) == IF k = "city_id" THEN PyInt(0) ELSE None

\* C12 as stated: the request of get_acg_list carries a query parameter if
\* and only if the caller supplied a non-empty value for it; no parameter
\* left at its empty or default value is attached.
C12_OnlyNonEmptyParams ==
  (api_pc = "done" /\ api_op \in ListOps) =>
    LET params == api_log[1].params.v IN
    /\ DOMAIN params =
         {k \in DOMAIN api_args :
            api_args[k] # ArgDefault(k) /\ api_args[k] # PyStr("")}
    /\ \A k \in DOMAIN params : params[k] = api_args[k]

\* C12 as amended: the request always carries city_id, the default 0
\* included, and carries each of city_name, key, order, page and count if and
\* only if the caller supplied a truthy value for it (not None, not the
\* empty string, not 0), with the value supplied.
C12_CityIdAlwaysOthersTruthy ==
  (api_pc = "done" /\ api_op \in ListOps) =>
    LET params == api_log[1].params.v IN
    /\ DOMAIN params =
         {"city_id"} \cup
         {k \in DOMAIN api_args \ {"city_id"} :
            api_args[k] \notin {None, PyStr(""), PyInt(0)}}
    /\ \A k \in DOMAIN params : params[k] = api_args[k]

\* get_acg_list was called with city_id 0, an empty key, page 0 and a
\* count: the request carries city_id and count only.
C12_Witness ==
  /\ ApiDone("get_acg_list")
  /\ api_args.city_id = PyInt(0)
  /\ api_args.key = PyStr("")
  /\ api_args.page = PyInt(0)
  /\ api_args.count = PyInt(10)
  /\ api_args.city_name = None /\ api_args.order = None
  /\ api_log[1].params = PyDict([city_id |-> PyInt(0), count |-> PyInt(10)])
(***************************************************************************)
(* Properties of the cache and of the calendar command                     *)
(***************************************************************************)
\* C1: with a positive expiry window, a get_cached_data(k) made at the very
\* time of the last set_cached_data(k, v) returns v, and one made when
\* now - storedAt >= expiry returns None and leaves k out of the cache.
C1_CacheRoundTrip ==
  (ExpireSeconds > 0 /\ call.op = "get" /\ call.key \in DOMAIN written) =>
    LET k == call.key IN
    /\ call.at = written[k].at => call.ret = written[k].value
    /\ call.at - written[k].at >= ExpireSeconds =>
         call.ret = None /\ k \notin DOMAIN cache

\* A value that is not None was read back as None exactly when its age
\* reached the window, and its key is gone.
C1_Witness ==
  /\ call.op = "get"
  /\ call.key \in DOMAIN written
  /\ written[call.key].value # None
  /\ call.at - written[call.key].at = ExpireSeconds
  /\ call.ret = None
  /\ call.key \notin DOMAIN cache

\* C2: get_cached_data is atomic with respect to set_cached_data of other
\* tasks: from its read of the entry through its expiry test to its delete
\* the cache holds, under the key, the very entry it read, so it deletes no
\* entry written after its test, and what it returns is the data of the
\* entry the cache held at the test.
C2_GetAtomic ==
  \A t \in Tasks :
    /\ pc[t] \in {"get_check", "get_del"} =>
         /\ cache_key(city[t]) \in DOMAIN cache
         /\ cache[cache_key(city[t])] = entry[t]
    /\ (pc[t] = "branch" /\ cached_data[t] # None) =>
         /\ probe[t].fresh
         /\ cached_data[t] = probe[t].data

\* A task is about to delete the expired entry of a city while another
\* task is waiting for the API answer it will store under the same key.
C2_Witness ==
  \E t, u \in Tasks :
    /\ t # u
    /\ city[t] = city[u]
    /\ pc[t] = "get_del"
    /\ pc[u] = "await_api"

\* C3: the calendar command consults the cache before the API client: with a
\* fresh entry under calendar_<city> it issues no request and uses the cached
\* envelope; it issues a request only on a miss; and a successful answer is
\* in the cache under that key when grouping and rendering begin.
C3_CacheBeforeApi ==
  \A t \in Tasks :
    /\ pc[t] = "await_api" => ~probe[t].fresh /\ requests[t] = 1
    /\ pc[t] \in {"respond", "await_render", "done"} =>
         IF probe[t].fresh
         THEN requests[t] = 0 /\ response[t] = probe[t].data
         ELSE requests[t] = 1
    /\ (pc[t] = "respond" /\ requests[t] = 1 /\ response[t].success) =>
         /\ cache_key(city[t]) \in DOMAIN cache
         /\ cache[cache_key(city[t])].data = response[t]

\* A command answers from a fresh cache entry that another command stored.
C3_Witness ==
  \E t \in Tasks :
    /\ pc[t] = "respond"
    /\ probe[t].fresh
    /\ requests[t] = 0
    /\ response[t].success
    /\ response[t].data.t = "ACGListResponse"

(***************************************************************************)
(* Properties of the time groups                                           *)
(***************************************************************************)
\* from_events has returned its groups.
Grouped == m_pc = "done" /\ m_op = "from_events" /\ ~m_ret.raised

\* The event is ongoing at time t: start_unix <= t <= end_unix.
Ongoing(event, t) ==
  /\ event.start_unix.t = "int" /\ event.end_unix.t = "int"
  /\ event.start_unix.v <= t
  /\ t <= event.end_unix.v

InBucket(groups, key, event) ==
  \E j \in 1..Len(groups) :
    /\ groups[j].key = key
    /\ \E k \in 1..Len(groups[j].events) : groups[j].events[k] = event

\* C13: from_events puts every event that is ongoing when it is examined
\* (start_unix <= now <= end_unix, both bounds included) into the bucket of
\* the ongoing marker, whatever its start_time, and every other event into
\* the bucket of its start_time.
C13_OngoingBucket ==
  m_op = "from_events" =>
    \A i \in 1..(ev_i - 1) :
      LET event == m_arg.v[i] IN
      IF Ongoing(event, read_at[i])
      THEN InBucket(time_groups, OngoingMarker, event)
      ELSE InBucket(time_groups, event.start_time, event)

\* An event examined at the very second it starts is in the marker's bucket
\* though its start_time is a date, and the same event examined again after
\* its end is in the bucket of that date.
C13_Witness ==
  /\ Grouped
  /\ \E i, j \in 1..Len(m_arg.v) :
       LET event == m_arg.v[i] IN
       /\ i < j
       /\ m_arg.v[j] = event
       /\ event.start_time # OngoingMarker
       /\ event.start_unix.v = read_at[i]
       /\ read_at[j] > event.end_unix.v
       /\ InBucket(m_ret.val.time_groups, OngoingMarker, event)
       /\ InBucket(m_ret.val.time_groups, event.start_time, event)

RECURSIVE Flatten(_)
Flatten(groups) ==
  IF groups = <<>> THEN <<>> ELSE Head(groups).events \o Flatten(Tail(groups))

Count(seq, x) == Cardinality({k \in 1..Len(seq) : seq[k] = x})

Range(seq) == {seq[k] : k \in 1..Len(seq)}

\* C14: the buckets of from_events partition the input: every input event
\* is in the buckets as many times as it is in the input (once, in one
\* bucket, when the input holds it once), no bucket holds an event that is
\* not in the input, no bucket is empty, and get_total_count is the length
\* of the input.
C14_Partition ==
  Grouped =>
    LET groups == m_ret.val.time_groups
        input == m_arg.v
        held == Flatten(groups)
    IN /\ \A event \in Range(input) \cup Range(held) :
            Count(held, event) = Count(input, event)
       /\ \A j \in 1..Len(groups) : groups[j].events # <<>>
       /\ \A j, k \in 1..Len(groups) : j # k => groups[j].key # groups[k].key
       /\ get_total_count(groups) = Len(input)

\* Three different events went into two buckets.
C14_Witness ==
  /\ Grouped
  /\ Cardinality(Range(m_arg.v)) = 3
  /\ Len(m_ret.val.time_groups) = 2
  /\ \E j \in 1..2 : Len(m_ret.val.time_groups[j].events) = 2

\* The key from_events gave the i-th input event.
KeyOf(i) ==
  IF Ongoing(m_arg.v[i], read_at[i]) THEN OngoingMarker ELSE m_arg.v[i].start_time

\* The input position at which the key was first produced.
FirstSeen(key) ==
  CHOOSE i \in 1..Len(m_arg.v) :
    KeyOf(i) = key /\ \A h \in 1..(i - 1) : KeyOf(h) # key

\* The input events that were given the key, in input order.
EventsOf(key) ==
  LET at == SelectSeq([i \in 1..Len(m_arg.v) |-> i], LAMBDA i : KeyOf(i) = key)
  IN [k \in 1..Len(at) |-> m_arg.v[at[k]]]

\* C15: the bucket keys of from_events are in the order in which each key
\* was first produced while scanning the input, and every bucket holds its
\* events in their relative order of the input.
C15_FirstSeenOrder ==
  Grouped =>
    LET groups == m_ret.val.time_groups IN
    /\ {groups[j].key : j \in 1..Len(groups)} = {KeyOf(i) : i \in 1..Len(m_arg.v)}
    /\ \A j, k \in 1..Len(groups) :
         j < k => FirstSeen(groups[j].key) < FirstSeen(groups[k].key)
    /\ \A j \in 1..Len(groups) : groups[j].events = EventsOf(groups[j].key)

\* The bucket of the later date comes first because its event came first,
\* and it holds two different events in input order.
C15_Witness ==
  /\ Grouped
  /\ Len(m_ret.val.time_groups) = 2
  /\ m_ret.val.time_groups[1].key = PyStr(DateText(2))
  /\ m_ret.val.time_groups[2].key = PyStr(DateText(1))
  /\ Len(m_ret.val.time_groups[1].events) = 2
  /\ m_ret.val.time_groups[1].events[1] # m_ret.val.time_groups[1].events[2]
  /\ m_ret.val.time_groups[1].events[1] = m_arg.v[1]

(***************************************************************************)
(* Properties of the days-until values                                     *)
(***************************************************************************)
Returned(name) == m_pc = "done" /\ m_op = name

\* The key's date part is no date: the key is no string, or the text before
\* its first space is not a "YYYY-MM-DD" date.
Unparseable(time_key) == time_key.t # "str" \/ ~IsDateText(first_word(time_key.v))

\* C16: get_days_until_start is total and non-negative: for every key,
\* well-formed or malformed, and every current time it returns an integer
\* >= 0 and raises nothing; it returns 0 for the ongoing marker and for
\* every key whose date part cannot be parsed.
C16_TotalNonNegative ==
  Returned("get_days_until_start") =>
    /\ ~m_ret.raised
    /\ m_ret.val.t = "int"
    /\ m_ret.val.v >= 0
    /\ m_arg.time_key = OngoingMarker => m_ret.val.v = 0
    /\ Unparseable(m_arg.time_key) => m_ret.val.v = 0

\* The key is a date that lies more than a day in the past: the result is 0.
C16_Witness ==
  /\ Returned("get_days_until_start")
  /\ m_arg.time_key = PyStr(DateText(1))
  /\ m_arg.at + m_arg.utc_offset > 2 * SecondsPerDay
  /\ m_ret = Ret(PyInt(0))

\* C17: for every bucket key and every current time the days-until value of
\* the calendar template's calculateDaysUntil equals the value of
\* get_days_until_start for the same key at the same time.
C17_ScriptAgrees ==
  Returned("calculateDaysUntil") =>
    m_ret = get_days_until_start(m_arg.time_key, m_arg.at, m_arg.utc_offset)

(***************************************************************************)
(* Properties of price_range_yuan and of ACGEvent.from_dict                *)
(***************************************************************************)
\* The sign the specification prints prices with, U+00A5 (yen sign).
YenSign == "<U+00A5>"

TwoDigits(n) == IF n < 10 THEN "0" \o ToString(n) ELSE ToString(n)

\* The decimal text of price / 100.
Hundredth(price) ==
  IF price % 100 = 0 THEN ToString(price \div 100)
  ELSE ToString(price \div 100) \o "." \o TwoDigits(price % 100)

PricesAreInts == m_arg.min_price.t = "int" /\ m_arg.max_price.t = "int"

\* C18 as stated: price_range_yuan shows one amount when min_price equals
\* max_price and "min - max" otherwise, each amount being the price divided
\* by 100, prefixed once by the yen sign; 3000/3000 gives the sign and "30",
\* 2000/5000 the sign and "20 - 50".
C18_PriceAsStated ==
  (Returned("price_range_yuan") /\ PricesAreInts) =>
    LET lo == m_arg.min_price.v
        hi == m_arg.max_price.v
    IN m_ret =
         Ret(PyStr(IF lo = hi THEN YenSign \o Hundredth(lo)
                   ELSE YenSign \o Hundredth(lo) \o " - " \o Hundredth(hi)))

\* The whole number nearest to price / 100, the even one of two that are
\* equally near.
Nearest(price) ==
  CHOOSE n \in 0..(price \div 100 + 1) :
    /\ 100 * n - price <= 50
    /\ price - 100 * n <= 50
    /\ (100 * n - price = 50 \/ price - 100 * n = 50) => n % 2 = 0

\* C18 as amended: for prices that are non-negative integers,
\* price_range_yuan shows one amount when min_price equals max_price and
\* "min - max" otherwise, each amount being the price divided by 100 and
\* rounded to a whole number (a tie to the even one), prefixed once by the
\* fullwidth yen sign U+FFE5; 3000/3000 gives the sign and "30", 2000/5000
\* the sign and "20 - 50".
C18_PriceRounded ==
  (Returned("price_range_yuan") /\ PricesAreInts) =>
    LET lo == m_arg.min_price.v
        hi == m_arg.max_price.v
    IN /\ m_ret =
            Ret(PyStr(IF lo = hi THEN "<U+FFE5>" \o ToString(Nearest(lo))
                      ELSE "<U+FFE5>" \o ToString(Nearest(lo)) \o " - "
                           \o ToString(Nearest(hi))))
       /\ (lo = 3000 /\ hi = 3000) => m_ret.val.v = "<U+FFE5>30"
       /\ (lo = 2000 /\ hi = 5000) => m_ret.val.v = "<U+FFE5>20 - 50"

\* 1999 and 150 are shown as 20 and 2.
C18_Witness ==
  /\ Returned("price_range_yuan")
  /\ m_arg.min_price = PyInt(150)
  /\ m_arg.max_price = PyInt(1999)
  /\ m_ret = Ret(PyStr("<U+FFE5>2 - 20"))

\* The default ACGEvent.from_dict gives an absent field: the empty string,
\* zero or null.
FieldDefault(f) ==
  CASE f \in {"id", "project_name", "start_time", "end_time", "city", "venue_name"} ->
         PyStr("")
    [] f \in {"start_unix", "end_unix", "min_price", "max_price", "like_count",
              "has_npc"} -> PyInt(0)
    [] OTHER -> None

\* The item's value for the field, or the field's default when absent.
Original(item, f) == IF f \in DOMAIN item.v THEN item.v[f] ELSE FieldDefault(f)

RoundTripFields ==
  {"id", "project_name", "min_price", "max_price", "start_unix", "end_unix"}

\* C19 as stated: for every API item, from_dict followed by reading id,
\* project_name, min_price, max_price, start_unix and end_unix returns the
\* item's values unchanged; absent fields take their default without
\* failing the parse.
C19_RoundTripAsStated ==
  (Returned("from_dict") /\ m_arg.t = "dict") =>
    /\ ~m_ret.raised
    /\ \A f \in RoundTripFields : m_ret.val[f] = Original(m_arg, f)
    /\ \A f \in DOMAIN m_ret.val \ {"t"} :
         f \notin DOMAIN m_arg.v => m_ret.val[f] = FieldDefault(f)

\* The text of a value: a string is its own text, an integer its decimal
\* digits.
TextOf(x) == IF x.t = "int" THEN PyStr(ToString(x.v)) ELSE x

\* C19 as amended: for every API item, from_dict followed by reading
\* project_name, min_price, max_price, start_unix and end_unix returns the
\* item's values unchanged, and reading id returns the item's id as a
\* string (unchanged when it is a string, its decimal text when it is an
\* integer); absent fields take their default without failing the parse.
C19_RoundTripIdAsText ==
  (Returned("from_dict") /\ m_arg.t = "dict") =>
    /\ ~m_ret.raised
    /\ \A f \in RoundTripFields \ {"id"} : m_ret.val[f] = Original(m_arg, f)
    /\ m_ret.val.id = TextOf(Original(m_arg, "id"))
    /\ \A f \in DOMAIN m_ret.val \ {"t"} :
         f \notin DOMAIN m_arg.v => m_ret.val[f] = FieldDefault(f)

\* An item with the integer id 7 and no times was parsed: the event's id is
\* the string "7" and its times are 0.
C19_Witness ==
  /\ Returned("from_dict")
  /\ m_arg.t = "dict"
  /\ "id" \in DOMAIN m_arg.v /\ m_arg.v.id = PyInt(7)
  /\ "end_unix" \notin DOMAIN m_arg.v
  /\ ~m_ret.raised
  /\ m_ret.val.id = PyStr("7")
  /\ m_ret.val.end_unix = PyInt(0)

\* C20: every event built from an API item satisfies start_unix <= end_unix.
C20_StartNotAfterEnd ==
  (Returned("from_dict") /\ ~m_ret.raised
     /\ m_ret.val.start_unix.t = "int" /\ m_ret.val.end_unix.t = "int") =>
    m_ret.val.start_unix.v <= m_ret.val.end_unix.v

(***************************************************************************)
(* Properties of the cache mapping                                         *)
(***************************************************************************)
\* The entry of key k is not the same before and after the step.
EntryChanged(k) ==
  \/ (k \in DOMAIN cache) # (k \in DOMAIN cache')
  \/ k \in DOMAIN cache /\ k \in DOMAIN cache' /\ cache[k] # cache'[k]

\* C25: expiry is evaluated only by a read of the same key: the passage of
\* time changes no entry, and the entry of a key changes only in a
\* set_cached_data of that key, in a get_cached_data of that key that finds
\* it expired and removes it, or in terminate; get and set on one key leave
\* the entry of every other key as it was.
C25_LazyExpiry ==
  [][ /\ now' # now => cache' = cache
      /\ \A k \in Keys :
           EntryChanged(k) =>
             \/ call'.op = "set" /\ call'.key = k /\ k \in DOMAIN cache'
             \/ /\ call'.op = "get" /\ call'.key = k
                /\ k \in DOMAIN cache
                /\ now - cache[k].timestamp >= ExpireSeconds
                /\ k \notin DOMAIN cache'
             \/ call'.op = "terminate" /\ cache' = <<>> ]_vars

\* An entry whose window has passed is still in the cache right after a
\* read of another key.
C25_Witness ==
  \E k \in Keys :
    /\ k \in DOMAIN cache
    /\ now - cache[k].timestamp >= ExpireSeconds
    /\ call.op = "get" /\ call.key # k /\ call.at = now

StatesTrue ==
  {s \in {"is_upcoming", "is_ongoing", "is_finished"} :
     ~m_ret.val[s].raised /\ m_ret.val[s].val}

\* The state status_text reports.
StateReported ==
  LET text == m_ret.val.status_text.val IN
  IF text = OngoingText THEN "is_ongoing"
  ELSE IF text = FinishedText THEN "is_finished"
  ELSE IF DOMAIN text = {"text", "arg"} /\ text.text = CountdownText THEN "is_upcoming"
  ELSE "none"

\* C27: for an event with start_unix <= end_unix and any current time,
\* exactly one of is_upcoming, is_ongoing and is_finished is true, and
\* status_text reports that state: the countdown when upcoming, the ongoing
\* text when ongoing, the finished text when finished.
C27_ExactlyOneState ==
  (/\ Returned("status")
   /\ m_arg.event.start_unix.t = "int" /\ m_arg.event.end_unix.t = "int"
   /\ m_arg.event.start_unix.v <= m_arg.event.end_unix.v) =>
    /\ \A s \in {"is_upcoming", "is_ongoing", "is_finished", "status_text"} :
         ~m_ret.val[s].raised
    /\ Cardinality(StatesTrue) = 1
    /\ StatesTrue = {StateReported}

\* At the very second an event of some length ends it is ongoing, neither
\* upcoming nor finished, and status_text says so.
C27_Witness ==
  /\ Returned("status")
  /\ m_arg.event.start_unix.t = "int" /\ m_arg.event.end_unix.t = "int"
  /\ m_arg.event.start_unix.v < m_arg.event.end_unix.v
  /\ m_arg.at = m_arg.event.end_unix.v
  /\ StatesTrue = {"is_ongoing"}
  /\ m_ret.val.status_text = Ret(OngoingText)

(***************************************************************************)
(* Properties of the renderer and of the transport                         *)
(***************************************************************************)
\* A render call is over.
RenderOver == r_op \in RenderOps /\ r_pc \in Exited

\* C22: every failure during template load, placeholder substitution or
\* capture makes the render call raise to its caller, and no render call
\* returns image bytes after its template failed to load.
C22_EveryFailureRaises ==
  RenderOver =>
    /\ (load_failed \/ r_exc # NoExc) => r_pc # "returned" /\ r_ret.raised
    /\ (r_pc = "returned" /\ r_ret.val.t = "bytes") => ~load_failed

\* C23: every HTTP client and every browser opened for an operation is
\* released on every way out of it: when _make_request or a render call has
\* returned, has raised or was cancelled, whether the exception came in the
\* request, in the launch, in the page setup, in the capture or in the
\* close, no browser and no client is open and the driver is stopped.
C23_ReleasedOnEveryExit ==
  r_pc \in Exited =>
    /\ browser # "open"
    /\ client # "open"
    /\ playwright = "stopped"

\* A render call has raised out of the capture with the browser launched and
\* "await browser.close()" never reached, and the browser is closed.
C23_Witness ==
  /\ RenderOver
  /\ r_pc \in {"raised", "cancelled"}
  /\ r_exc.at \in {"page", "screenshot"}
  /\ browser = "closed"
  /\ playwright = "stopped"

\* part occurs in text as it is.
Contains(text, part) ==
  \E i \in 1..(Len(text) - Len(part) + 1) :
    SubSeq(text, i, i + Len(part) - 1) = part

\* C24: each render call performs exactly one substitution per token: each
\* replace call it makes finds its token once in the text it is applied to,
\* and in render_guest_events the guest payload put in by the first replace
\* stands unmodified in the text the second replace gives.
C24_OneSubstitutionPerToken ==
  (r_op \in RenderOps /\ subs # <<>>) =>
    /\ \A i \in 1..Len(subs) : str_count(subs[i].on, subs[i].token) = 1
    /\ r_op = "render_guest_events" => Contains(subs[2].gave, subs[1].payload)

(***************************************************************************)
(* Properties of the command handlers                                      *)
(***************************************************************************)
ImageCommands == {"calendar", "search", "guest_search"}

\* The handler has ended after its render call raised.
RenderFailed == h_pc = "done" /\ h_cmd \in ImageCommands /\ h_image.raised

\* C21: in the calendar, the event search and the guest search, when image
\* rendering is enabled and the render call raises, the command answers
\* with the text rendering of the same data: never with no reply, never
\* with an error reply.
C21_RenderFailureGivesText ==
  RenderFailed => h_replies = <<"text">>

\* C28: every invocation of a handler yields exactly one reply on every
\* path, and the handler ends with it: no handler ever holds more than one
\* reply, and it has ended exactly when it holds one.
C28_ExactlyOneReply ==
  /\ Len(h_replies) <= 1
  /\ h_pc = "done" <=> Len(h_replies) = 1
  /\ h_pc = "idle" => h_replies = <<>>

\* The search has ended with the error reply of its except clause: the
\* render call raised and the text format raised after it.
C28_Witness ==
  /\ h_cmd = "search"
  /\ RenderFailed
  /\ h_pc = "done"
  /\ h_replies = <<"error">>
====
